---------------------------- MODULE Spec2Model ----------------------------
(***************************************************************************)
(* Verification model of the capital-gains-tax core of YSZ:                *)
(*   Fact            src/YSZ/src/core/fact.py                              *)
(*   FactLedger      src/YSZ/src/core/fact_ledger.py                       *)
(*   RuleEngine      src/YSZ/src/core/rule_engine.py                       *)
(*   TaxCalculator   src/YSZ/src/core/tax_calculator.py                    *)
(*   CalculationResult  src/YSZ/src/core/calculation_trace.py              *)
(*                                                                         *)
(* The specifications share the variables:                                 *)
(*   SpecFact  chains of Fact construction, confirm() and update_value()   *)
(*   Spec      the life cycle of one FactLedger: create, update_field,     *)
(*             freeze                                                      *)
(*   SpecCalc  create -> freeze -> TaxCalculator.calculate, step by step   *)
(*   SpecRules the queries of a RuleEngine, and the rate helpers of the    *)
(*             calculator, called one at a time on bounded arguments       *)
(*   SpecShared  two callers of calculate() on one frozen ledger, their    *)
(*             invocations interleaved step by step and repeated           *)
(*   SpecEstimate  estimate_tax() next to calculate() on one ledger        *)
(*   SpecRevise  Facts of a ledger revised with update_value()/confirm()   *)
(*             and put back with update_field before freeze                *)
(*   SpecVersion  create, update_field, freeze and create_new_version      *)
(*   SpecConstruct  a ledger built with the dataclass constructor          *)
(*   SpecRace  update_field and freeze() on one ledger, their statements   *)
(*             interleaved                                                 *)
(*                                                                         *)
(* Representation.  A Python Optional is a sequence of length 0 or 1       *)
(* (None == <<>>).  A float confidence is counted in tenths (1.0 == 10),   *)
(* a float rate in percent (0.38 == 38).  A date is a day number.          *)
(* update_field's field_name ranges over the dataclass fields of           *)
(* FactLedger, its derived properties and names that are no attribute.     *)
(***************************************************************************)
EXTENDS Integers, Sequences, FiniteSets, TLC

VARIABLES
    fact,        \* SpecFact: the Fact the last Fact operation returned (Optional)
    factCall,    \* SpecFact: the last Fact operation, its arguments and outcome
    ledger,      \* the FactLedger object (Optional: <<>> before create)
    call,        \* the last FactLedger call: operation, arguments, outcome
    ncalls,      \* number of FactLedger calls made after create
    rules,       \* SpecCalc: the rule table the RuleEngine loaded
    calc,        \* SpecCalc: the frame of the running calculate() invocation
    query,       \* SpecRules: the last RuleEngine query, its arguments and answer;
                 \* SpecVersion: the last create_new_version call; SpecRace: the
                 \* frame of the freeze() invocation
    peer         \* SpecShared: the frame of a second, concurrent calculate();
                 \* SpecRace: the frame of the update_field invocation

vars == <<fact, factCall, ledger, call, ncalls, rules, calc, query, peer>>

None == <<>>
Some(x) == <<x>>

-----------------------------------------------------------------------------
(* Bounds of the model *)

\* FactLedger calls (update_field, freeze) made on one ledger after create
MaxCalls == 3

-----------------------------------------------------------------------------
(* Fact (fact.py) *)

\* 1.0 in tenths
FullConfidence == 10

\* The confidence FactLedger.create gives a wrapped bare value (0.9)
WrapConfidence == 9

MkFact(value, source, confidence, is_confirmed, entered_by) ==
    [value |-> value, source |-> source, confidence |-> confidence,
     is_confirmed |-> is_confirmed, entered_by |-> entered_by]

\* Mutant: __post_init__ without the confirmed => confidence = 1.0 check
PostInitNoConfirmedCheck(f) ==
    IF ~(0 <= f.confidence /\ f.confidence <= FullConfidence)
    THEN "ValueError" ELSE "ok"

\* Fact.__post_init__: "ok", or the exception it raises
PostInit(f) ==
    IF ~(0 <= f.confidence /\ f.confidence <= FullConfidence)
    THEN "ValueError"
    ELSE IF f.is_confirmed /\ f.confidence # FullConfidence
         THEN "ValueError"
         ELSE "ok"

\* Fact(...): the constructor runs __post_init__; a raise yields no object
NewFact(f) ==
    IF PostInit(f) = "ok" THEN [raised |-> "none", obj |-> Some(f)]
    ELSE [raised |-> PostInit(f), obj |-> None]

\* Fact.confirm(confirmed_by)
confirm(self, confirmed_by) ==
    NewFact(MkFact(self.value, self.source, FullConfidence, TRUE, confirmed_by))

\* Mutant: update_value keeping the receiver's is_confirmed
UpdateValueKeepsConfirmed(self, new_value, updated_by) ==
    NewFact(MkFact(new_value, self.source, self.confidence, self.is_confirmed,
                   updated_by))

\* Fact.update_value(new_value, updated_by)
update_value(self, new_value, updated_by) ==
    NewFact(MkFact(new_value, self.source, self.confidence, FALSE, updated_by))

\* Fact.create_user_input(value, entered_by, is_confirmed)
create_user_input(value, entered_by, is_confirmed) ==
    NewFact(MkFact(value, "user_input",
                   IF is_confirmed THEN FullConfidence ELSE WrapConfidence,
                   is_confirmed, entered_by))

\* Fact.create_estimated(value, confidence, source)
create_estimated(value, confidence, source) ==
    NewFact(MkFact(value, source, confidence, FALSE, "system"))

\* Fact.create_from_agent(value, agent_id, reasoning, confidence)
create_from_agent(value, agent_id, confidence) ==
    NewFact(MkFact(value, "agent_generated", confidence, FALSE, agent_id))

-----------------------------------------------------------------------------
(* FactLedger (fact_ledger.py) *)

\* The Optional[Fact] fields of the dataclass, in declaration order
FactSlots ==
    {"transaction_date", "asset_type", "asset_description",
     "acquisition_date", "acquisition_price", "disposal_date", "disposal_price",
     "acquisition_cost", "disposal_cost", "improvement_cost",
     "is_primary_residence", "residence_period_years", "house_count"}

\* The metadata fields of the dataclass that the model carries
MetaFields == {"created_by", "version", "is_frozen"}

\* The @property attributes (no setter)
Properties == {"capital_gain", "holding_period_years"}

\* freeze(): required_fields, in the order the loop visits them
required_fields ==
    <<"acquisition_date", "acquisition_price", "disposal_date", "disposal_price">>

\* _validate(): the cost fields, in the order the loop visits them
cost_fields == <<"acquisition_cost", "disposal_cost", "improvement_cost">>

\* A Python object stored in a metadata attribute: the bool/int it was declared
\* with (obj = None), or whatever object setattr put there (obj = Some(o)).
PyBool(b) == [b |-> b, n |-> 0, obj |-> None]
PyInt(n) == [b |-> n # 0, n |-> n, obj |-> None]
PyObj(o) == [b |-> TRUE, n |-> 0, obj |-> Some(o)]

\* bool(x) as `if x:` / `not x` evaluate it.  A Fact defines neither __bool__
\* nor __len__, so every Fact object is true.
Truthy(x) == x.b

\* `x is True`: the bool True itself
IsTrue(x) == x.b /\ x.obj = None

\* FactLedger(**kwargs, created_by=...): the dataclass defaults
NewLedger(kwargs, created_by) ==
    [n \in FactSlots |-> IF n \in DOMAIN kwargs THEN Some(kwargs[n]) ELSE None]
    @@ [created_by |-> created_by, version |-> PyInt(1), is_frozen |-> PyBool(FALSE)]

\* Mutant: create wraps bare values as confirmed, full-confidence Facts
WrapAsConfirmed(entry, created_by) ==
    IF entry.isFact THEN entry.fact
    ELSE MkFact(entry.value, "user_input", FullConfidence, TRUE, created_by)

\* create(): one value of the mapping, wrapped unless it is a Fact already
Wrap(entry, created_by) ==
    IF entry.isFact THEN entry.fact
    ELSE MkFact(entry.value, "user_input", WrapConfidence, FALSE, created_by)

\* FactLedger.create(facts, created_by)
create(facts, created_by) ==
    NewLedger([n \in DOMAIN facts |-> Wrap(facts[n], created_by)], created_by)

\* Mutant: _validate without the date-order check
ValidateNoDateCheck(self) ==
    IF self.acquisition_price # None /\ self.acquisition_price[1].value < 0
    THEN "ValueError:acquisition_price"
    ELSE "ok"

\* _validate(): "ok" or the first ValueError it raises
Validate(self) ==
    IF self.disposal_date # None /\ self.acquisition_date # None
       /\ self.disposal_date[1].value < self.acquisition_date[1].value
    THEN "ValueError:date_order"
    ELSE IF self.acquisition_price # None /\ self.acquisition_price[1].value < 0
    THEN "ValueError:acquisition_price"
    ELSE IF self.disposal_price # None /\ self.disposal_price[1].value < 0
    THEN "ValueError:disposal_price"
    ELSE IF \E i \in 1..Len(cost_fields) :
               self[cost_fields[i]] # None /\ self[cost_fields[i]][1].value < 0
    THEN "ValueError:cost"
    ELSE IF self.residence_period_years # None
            /\ self.residence_period_years[1].value < 0
    THEN "ValueError:residence_period_years"
    ELSE "ok"

\* freeze(): the required fields that are unset or unconfirmed
BadRequired(self) ==
    {i \in 1..Len(required_fields) :
        self[required_fields[i]] = None
        \/ ~self[required_fields[i]][1].is_confirmed}

\* freeze(): the loop over required_fields: "ok" or the ValueError raised at the
\* first required field that is None or not confirmed
RequiredCheck(self) ==
    IF BadRequired(self) = {} THEN "ok"
    ELSE LET i == CHOOSE k \in BadRequired(self) :
                      \A j \in BadRequired(self) : k <= j
         IN  IF self[required_fields[i]] = None
             THEN "ValueError:required_not_set"
             ELSE "ValueError:not_confirmed"

\* freeze(): "ok" or the exception it raises, checks in source order
FreezeOutcome(self) ==
    IF Truthy(self.is_frozen) THEN "ValueError:already_frozen"
    ELSE IF RequiredCheck(self) # "ok" THEN RequiredCheck(self)
    ELSE Validate(self)

\* Mutant: freeze sets is_frozen before the required-field and _validate checks
FreezeMarksBeforeChecks(self) ==
    IF Truthy(self.is_frozen) THEN self
    ELSE [self EXCEPT !.is_frozen = PyBool(TRUE)]

\* freeze(): the ledger after the call
FreezeEffect(self) ==
    IF FreezeOutcome(self) = "ok"
    THEN [self EXCEPT !.is_frozen = PyBool(TRUE)]
    ELSE self

\* Mutant: update_field without the frozen guard
UpdateNoFrozenGuard(self, field_name) ==
    IF field_name \notin (FactSlots \cup MetaFields \cup Properties)
    THEN "AttributeError:unknown_field"
    ELSE IF field_name \in Properties THEN "AttributeError:no_setter"
    ELSE "ok"

\* update_field(): "ok" or the exception it raises.  hasattr is true of every
\* attribute of the object: Fact slots, metadata fields and properties alike;
\* setattr on a property without a setter raises AttributeError.
UpdateOutcome(self, field_name) ==
    IF Truthy(self.is_frozen) THEN "ValueError:frozen"
    ELSE IF field_name \notin (FactSlots \cup MetaFields \cup Properties)
    THEN "AttributeError:unknown_field"
    ELSE IF field_name \in Properties THEN "AttributeError:no_setter"
    ELSE "ok"

\* setattr(self, field_name, fact)
SetAttr(self, field_name, f) ==
    IF field_name \in FactSlots THEN [self EXCEPT ![field_name] = Some(f)]
    ELSE [self EXCEPT ![field_name] = PyObj(f)]

\* update_field(): the ledger after the call
UpdateEffect(self, field_name, f) ==
    IF UpdateOutcome(self, field_name) = "ok" THEN SetAttr(self, field_name, f)
    ELSE self

\* The fields of the dataclass: what FactLedger(**kwargs) accepts
DataclassFields ==
    FactSlots \cup MetaFields \cup {"transaction_id", "created_at", "notes"}

\* current_data.update(changes) on one field the model carries: a Fact slot
\* holds the object passed, a metadata field the Python value passed
Changed(self, changes, n) ==
    IF n \notin DOMAIN changes THEN self[n]
    ELSE IF n \in FactSlots THEN Some(changes[n])
    ELSE changes[n]

\* create_new_version(**changes): the new ledger, or the exception raised.
\* `self.version + 1` is a TypeError when version holds an object that is no
\* number; FactLedger(**current_data) is a TypeError for a keyword that is no
\* field.  The dataclass has no __post_init__: nothing is validated.
create_new_version(self, changes) ==
    IF Truthy(self.is_frozen)
    THEN [raised |-> "ValueError:frozen", obj |-> None]
    ELSE IF self.version.obj # None
    THEN [raised |-> "TypeError:unsupported_operand", obj |-> None]
    ELSE IF ~(DOMAIN changes \subseteq DataclassFields)
    THEN [raised |-> "TypeError:unexpected_keyword", obj |-> None]
    ELSE [raised |-> "none",
          obj |-> Some([[n \in DOMAIN self |-> Changed(self, changes, n)]
                          EXCEPT !.version = PyInt(self.version.n + 1)])]

\* capital_gain property
capital_gain(self) ==
    IF self.disposal_price = None \/ self.acquisition_price = None THEN None
    ELSE Some(self.disposal_price[1].value
              - (self.acquisition_price[1].value
                 + (IF self.acquisition_cost # None
                    THEN self.acquisition_cost[1].value ELSE 0)
                 + (IF self.disposal_cost # None
                    THEN self.disposal_cost[1].value ELSE 0)
                 + (IF self.improvement_cost # None
                    THEN self.improvement_cost[1].value ELSE 0)))

\* days // 365 in holding_period_years
DaysPerYear == 365

\* holding_period_years property
holding_period_years(self) ==
    IF self.acquisition_date = None \/ self.disposal_date = None THEN None
    ELSE Some((self.disposal_date[1].value - self.acquisition_date[1].value)
              \div DaysPerYear)

-----------------------------------------------------------------------------
(* Decimal and float arithmetic as the calculator uses it *)

\* A Decimal amount: n won plus e units of 10^-15 won.  Every amount read from
\* a ledger or a rule table has e = 0; e carries what Decimal(str(x)) adds when
\* the float x is a sum that binary floating point does not hit exactly.
Dec(n) == [n |-> n, e |-> 0]
Zero == Dec(0)
DecAdd(a, b) == [n |-> a.n + b.n, e |-> a.e + b.e]
DecSub(a, b) == [n |-> a.n - b.n, e |-> a.e - b.e]
\* a <= b
DecLe(a, b) == a.n < b.n \/ (a.n = b.n /\ a.e <= b.e)
\* max(a, b) of Python: b only if b > a
DecMax(a, b) == IF ~DecLe(b, a) THEN b ELSE a

\* A float rate: pct percent plus err units of 10^-17, as str() prints it.
\* A rate literal of a rule table has err = 0.
Rate(pct) == [pct |-> pct, err |-> 0]

\* What str(a + b) shows beyond the exact sum, in units of 10^-17, for the
\* float literals a/100 and b/100 (IEEE-754 double, round to nearest)
FloatAddErr(a, b) ==
    CASE <<a, b>> = <<38, 20>> -> 10
      [] <<a, b>> = <<40, 20>> -> 10
      [] <<a, b>> = <<15, 30>> -> -4
      [] <<a, b>> = <<35, 30>> -> -10
      [] <<a, b>> = <<38, 30>> -> -10
      [] <<a, b>> = <<40, 8>> -> 4
      [] OTHER -> 0

\* a + b on two float literals
FloatAdd(a, b) == [pct |-> a.pct + b.pct, err |-> FloatAddErr(a.pct, b.pct)]
FloatLe(a, b) == a.pct < b.pct \/ (a.pct = b.pct /\ a.err <= b.err)
\* min(a, b) of Python: b only if b < a
FloatMin(a, b) == IF ~FloatLe(a, b) THEN b ELSE a
\* x > 0 on a float
FloatPositive(a) == ~FloatLe(a, Rate(0))

\* x * pct / 100 on an integer count x
MulPct(x, pct) == (x \div 100) * pct + ((x % 100) * pct) \div 100

\* d * Decimal(str(r)): exact in Decimal at the context precision of 28 digits
DecMulRate(d, r) ==
    [n |-> MulPct(d.n, r.pct),
     e |-> MulPct(d.e, r.pct) + (d.n \div 100) * r.err]

\* The product above is the exact Decimal product (no digit is cut off)
ExactMul(d, r) ==
    /\ ((d.n % 100) * r.pct) % 100 = 0
    /\ ((d.e % 100) * r.pct) % 100 = 0
    /\ r.err # 0 => (d.n % 100 = 0 /\ d.e = 0)

\* The least and the greatest element of a non-empty set of indices
First(S) == CHOOSE k \in S : \A j \in S : k <= j
Last(S) == CHOOSE k \in S : \A j \in S : k >= j

-----------------------------------------------------------------------------
(* RuleEngine (rule_engine.py) *)

\* A row of a years -> rate mapping, in the order the mapping lists it
YearRate(years, pct) == [years |-> years, rate |-> Rate(pct)]

\* A row of progressive_tax_brackets
Bracket(threshold, pct, deduction) ==
    [threshold |-> threshold, rate |-> Rate(pct), deduction |-> deduction]

\* A row of short_term_rates
ShortTermRow(name, asset_type, min, max, pct) ==
    [name |-> name, asset_type |-> asset_type, holding_period_min |-> min,
     holding_period_max |-> max, rate |-> Rate(pct)]

\* A condition of one_house_exemption; a bool value counts as the int it is
Condition(field, operator, value) ==
    [field |-> field, operator |-> operator, value |-> value]

\* The rule table of the reference data (version 2024.11)
ReferenceRules ==
    [version |-> "2024.11",
     progressive_tax_brackets |->
        << Bracket(Some(14000000), 6, 0),
           Bracket(Some(50000000), 15, 1260000),
           Bracket(Some(88000000), 24, 5760000),
           Bracket(Some(150000000), 35, 15440000),
           Bracket(Some(300000000), 38, 19940000),
           Bracket(Some(500000000), 40, 25940000),
           Bracket(Some(1000000000), 42, 35940000),
           Bracket(None, 45, 65940000) >>,
     short_term_rates |->
        << ShortTermRow("residential_under_1", "residential", 0, 1, 70),
           ShortTermRow("residential_1_to_2", "residential", 1, 2, 60),
           ShortTermRow("non_residential_under_1", "non_residential", 0, 1, 50),
           ShortTermRow("non_residential_1_to_2", "non_residential", 1, 2, 40) >>,
     one_house_owner |->
        [base_rates |-> << YearRate(3, 12), YearRate(5, 16), YearRate(10, 40) >>,
         residence_rates |-> << YearRate(2, 8), YearRate(3, 12), YearRate(10, 40) >>,
         max_rate |-> Rate(80)],
     general |->
        [rates |-> << YearRate(3, 6), YearRate(5, 10), YearRate(10, 20),
                      YearRate(15, 30) >>,
         max_rate |-> Rate(30)],
     one_house_exemption |->
        [name |-> "one_house_exemption",
         conditions |-> << Condition("is_primary_residence", "eq", 1),
                           Condition("residence_period_years", "gte", 2),
                           Condition("holding_period_years", "gte", 2) >>,
         exemption_limit |-> 1200000000],
     two_houses |-> Rate(20),
     three_or_more_houses |-> Rate(30),
     basic_deduction |-> 2500000,
     local_tax_rate |-> Rate(10)]

\* A rule table a deployment may load instead: no catch-all bracket, short-term
\* rows for residential assets only (two of them overlapping), the general
\* deduction rows not in ascending order, a lower exemption limit
VariantRules ==
    [version |-> "2025.01",
     progressive_tax_brackets |->
        << Bracket(Some(14000000), 6, 0),
           Bracket(Some(50000000), 15, 1260000) >>,
     short_term_rates |->
        << ShortTermRow("residential_under_1", "residential", 0, 1, 70),
           ShortTermRow("residential_under_2", "residential", 0, 2, 60) >>,
     one_house_owner |->
        [base_rates |-> << YearRate(3, 12), YearRate(5, 16), YearRate(10, 40) >>,
         residence_rates |-> << YearRate(2, 8), YearRate(3, 12), YearRate(10, 40) >>,
         max_rate |-> Rate(50)],
     general |->
        [rates |-> << YearRate(10, 20), YearRate(3, 6), YearRate(5, 10) >>,
         max_rate |-> Rate(30)],
     one_house_exemption |->
        [name |-> "one_house_exemption",
         conditions |-> << Condition("is_primary_residence", "eq", 1),
                           Condition("residence_period_years", "gte", 2),
                           Condition("holding_period_years", "gte", 2) >>,
         exemption_limit |-> 600000000],
     two_houses |-> Rate(20),
     three_or_more_houses |-> Rate(30),
     basic_deduction |-> 2500000,
     local_tax_rate |-> Rate(10)]

\* The tables a RuleEngine is constructed with
RuleTables == {ReferenceRules, VariantRules}

\* A rule table as it may stand while it is being written: no bracket yet, one
\* short-term row whose holding_period_max lies beyond two years
DraftRules ==
    [ReferenceRules EXCEPT
        !.version = "draft",
        !.progressive_tax_brackets = << >>,
        !.short_term_rates =
            << ShortTermRow("residential_under_3", "residential", 0, 3, 70) >>]

\* Condition lists a table may give one_house_exemption: an unsupported
\* operator behind a condition that can fail, a field the engine has no fact
\* for (with a supported and with an unsupported operator), the operators the
\* reference conditions do not use, and no condition at all
ConditionLists ==
    { << Condition("is_primary_residence", "eq", 1),
         Condition("residence_period_years", "between", 2) >>,
      << Condition("holding_period_years", "gte", 2),
         Condition("house_count", "lte", 1) >>,
      << Condition("house_count", "in", 1) >>,
      << Condition("holding_period_years", "ne", 2),
         Condition("residence_period_years", "lt", 5),
         Condition("holding_period_years", "gt", 1),
         Condition("residence_period_years", "lte", 3) >>,
      << >> }

ConditionTables ==
    {[ReferenceRules EXCEPT !.version = "conditions",
                            !.one_house_exemption.conditions = conditions] :
        conditions \in ConditionLists}

\* Mutant: the lookup without the `holding_period_years >= 2` return
GetShortTermRateAnyYear(self, asset_type, years) ==
    LET rows == self.short_term_rates
        hits == {i \in 1..Len(rows) :
                    /\ rows[i].asset_type = asset_type
                    /\ rows[i].holding_period_min <= years
                    /\ years < rows[i].holding_period_max}
    IN  IF hits = {} THEN None ELSE Some(rows[First(hits)])

\* get_short_term_rate(asset_type, holding_period_years): the first matching
\* row in table order, or None
get_short_term_rate(self, asset_type, years) ==
    IF years >= 2 THEN None
    ELSE LET rows == self.short_term_rates
             hits == {i \in 1..Len(rows) :
                         /\ rows[i].asset_type = asset_type
                         /\ rows[i].holding_period_min <= years
                         /\ years < rows[i].holding_period_max}
         IN  IF hits = {} THEN None ELSE Some(rows[First(hits)])

\* Mutant: the bracket test with < in place of <=
CalculateProgressiveTaxStrict(self, taxable_income) ==
    LET brackets == self.progressive_tax_brackets
        hits == {i \in 1..Len(brackets) :
                    \/ brackets[i].threshold = None
                    \/ /\ DecLe(taxable_income, Dec(brackets[i].threshold[1]))
                       /\ taxable_income # Dec(brackets[i].threshold[1])}
        row == IF hits # {} THEN brackets[First(hits)] ELSE brackets[Len(brackets)]
    IN  IF hits = {} /\ Len(brackets) = 0
        THEN [raised |-> "IndexError", rate |-> Rate(0), deduction |-> Zero]
        ELSE [raised |-> "none", rate |-> row.rate, deduction |-> Dec(row.deduction)]

\* calculate_progressive_tax(taxable_income): the first bracket whose threshold
\* is None or >= income; past the loop brackets[-1], which raises IndexError on
\* an empty table
calculate_progressive_tax(self, taxable_income) ==
    LET brackets == self.progressive_tax_brackets
        hits == {i \in 1..Len(brackets) :
                    \/ brackets[i].threshold = None
                    \/ DecLe(taxable_income, Dec(brackets[i].threshold[1]))}
        row == IF hits # {} THEN brackets[First(hits)] ELSE brackets[Len(brackets)]
    IN  IF hits = {} /\ Len(brackets) = 0
        THEN [raised |-> "IndexError", rate |-> Rate(0), deduction |-> Zero]
        ELSE [raised |-> "none", rate |-> row.rate, deduction |-> Dec(row.deduction)]

\* Mutant: the surcharge without the `holding_period_years < 2` test
GetMultiHouseSurchargeAnyYear(self, house_count, is_adjusted_area, years) ==
    IF ~is_adjusted_area THEN Rate(0)
    ELSE IF house_count >= 3 THEN self.three_or_more_houses
    ELSE IF house_count = 2 THEN self.two_houses
    ELSE Rate(0)

\* get_multi_house_surcharge(house_count, is_adjusted_area, holding_period_years)
get_multi_house_surcharge(self, house_count, is_adjusted_area, years) ==
    IF ~is_adjusted_area \/ years < 2 THEN Rate(0)
    ELSE IF house_count >= 3 THEN self.three_or_more_houses
    ELSE IF house_count = 2 THEN self.two_houses
    ELSE Rate(0)

\* `for years, rate in rows.items(): if period >= years: found = rate`:
\* the rate of the last row, in table order, whose years the period reaches
LastMatchingRate(rows, period) ==
    LET hits == {i \in 1..Len(rows) : period >= rows[i].years}
    IN  IF hits = {} THEN Rate(0) ELSE rows[Last(hits)].rate

\* calculate_long_term_deduction_rate(holding, is_primary_residence, residence)
calculate_long_term_deduction_rate(self, years, is_primary_residence, residence_years) ==
    IF years < 3 THEN Rate(0)
    ELSE IF is_primary_residence /\ residence_years >= 2
    THEN FloatMin(FloatAdd(LastMatchingRate(self.one_house_owner.base_rates, years),
                           LastMatchingRate(self.one_house_owner.residence_rates,
                                            residence_years)),
                  self.one_house_owner.max_rate)
    ELSE FloatMin(LastMatchingRate(self.general.rates, years), self.general.max_rate)

\* The operators _evaluate_condition knows
Operators == {"eq", "ne", "lt", "lte", "gt", "gte"}

\* _evaluate_condition(fact_value, operator, target_value), operator known
evaluate_condition(fact_value, operator, target_value) ==
    CASE operator = "eq" -> fact_value = target_value
      [] operator = "ne" -> fact_value # target_value
      [] operator = "lt" -> fact_value < target_value
      [] operator = "lte" -> fact_value <= target_value
      [] operator = "gt" -> fact_value > target_value
      [] operator = "gte" -> fact_value >= target_value

\* _check_conditions(conditions, facts) from condition i on: "True", "False",
\* or "ValueError" at the first condition reached whose operator is unknown
RECURSIVE check_conditions(_, _, _)
check_conditions(conditions, facts, i) ==
    IF i > Len(conditions) THEN "True"
    ELSE IF conditions[i].field \notin DOMAIN facts THEN "False"
    ELSE IF conditions[i].operator \notin Operators THEN "ValueError"
    ELSE IF ~evaluate_condition(facts[conditions[i].field], conditions[i].operator,
                                conditions[i].value)
    THEN "False"
    ELSE check_conditions(conditions, facts, i + 1)

\* check_exemption_eligibility(is_primary_residence, residence, holding):
\* the exemption record, None, or the ValueError of _evaluate_condition
check_exemption_eligibility(self, is_primary_residence, residence_years, years) ==
    LET facts == [is_primary_residence |-> IF is_primary_residence THEN 1 ELSE 0,
                  residence_period_years |-> residence_years,
                  holding_period_years |-> years]
        met == check_conditions(self.one_house_exemption.conditions, facts, 1)
    IN  [raised |-> IF met = "ValueError" THEN "ValueError:operator" ELSE "none",
         info |-> IF met = "True"
                  THEN Some([name |-> self.one_house_exemption.name,
                             exemption_limit |-> self.one_house_exemption.exemption_limit])
                  ELSE None]

\* get_basic_deduction()
get_basic_deduction(self) == Dec(self.basic_deduction)

\* get_local_tax_rate()
get_local_tax_rate(self) == self.local_tax_rate

-----------------------------------------------------------------------------
(* CalculationResult (calculation_trace.py) *)

\* The fields of the CalculationResult dataclass
CalculationResultFields ==
    {"fact_ledger_id", "transfer_income", "long_term_deduction", "taxable_income",
     "tax_rate", "calculated_tax", "exemption_amount", "final_tax", "traces",
     "calculation_time", "rule_version", "warnings"}

\* The fields with a default (default_factory or value)
DefaultedResultFields == {"calculation_time", "rule_version", "warnings"}

\* CalculationResult(**kwargs): the generated __init__ raises TypeError for a
\* keyword that is no field and for a field without default that is not passed
NewCalculationResult(kwargs) ==
    IF ~(DOMAIN kwargs \subseteq CalculationResultFields)
    THEN [raised |-> "TypeError:unexpected_keyword", obj |-> None]
    ELSE IF ~((CalculationResultFields \ DefaultedResultFields) \subseteq DOMAIN kwargs)
    THEN [raised |-> "TypeError:missing_argument", obj |-> None]
    ELSE [raised |-> "none", obj |-> Some(kwargs)]

\* CalculationTrace(step_name, applied_rule, output_value): output_value is the
\* amount of the step, or for check_exemption the bool in flag
Trace(step_name, applied_rule, amount, flag) ==
    [step_name |-> step_name, applied_rule |-> applied_rule,
     output_value |-> amount, flag |-> flag]

-----------------------------------------------------------------------------
(* TaxCalculator (tax_calculator.py) *)

\* The dict _calculate_tax returns; path names the function that built it
TaxResult(path, base_tax_rate, progressive_deduction, surcharge_rate, calculated_tax) ==
    [path |-> path, base_tax_rate |-> base_tax_rate,
     progressive_deduction |-> progressive_deduction,
     surcharge_rate |-> surcharge_rate, calculated_tax |-> calculated_tax]
NoTaxResult == TaxResult("none", Rate(0), Zero, Rate(0), Zero)

\* The frame of one calculate() invocation: where it is (pc), its argument, its
\* locals (Zero until assigned), the exception it raised and what it returned.
\* exact: every Decimal product so far is represented without loss.
NewFrame(pc, is_adjusted_area) ==
    [pc |-> pc, is_adjusted_area |-> is_adjusted_area,
     traces |-> <<>>, warnings |-> <<>>,
     transfer_income |-> Zero, long_term_deduction |-> Zero,
     transfer_income_amount |-> Zero, basic_deduction |-> Zero,
     taxable_income |-> Zero, tax_result |-> NoTaxResult,
     local_tax |-> Zero, final_tax |-> Zero,
     raised |-> "none", result |-> None, exact |-> TRUE]

Raise(f, exception) == [f EXCEPT !.pc = "raised", !.raised = exception]

\* `x.value if x else default` on a ledger slot
ValueOr(fact_ledger, n, default) ==
    IF fact_ledger[n] # None THEN fact_ledger[n][1].value ELSE default

\* Mutant: calculate without the frozen check
StartNoFrozenCheck(fact_ledger, is_adjusted_area) ==
    NewFrame("transfer_income", is_adjusted_area)

\* calculate(), lines 47-53: the frozen check, then traces = [], warnings = []
Start(fact_ledger, is_adjusted_area) ==
    IF ~Truthy(fact_ledger.is_frozen)
    THEN Raise(NewFrame("idle", is_adjusted_area), "ValueError:not_frozen")
    ELSE NewFrame("transfer_income", is_adjusted_area)

\* _calculate_transfer_income
calculate_transfer_income(fact_ledger, f) ==
    LET necessary_expenses ==
            ValueOr(fact_ledger, "acquisition_cost", 0)
            + ValueOr(fact_ledger, "disposal_cost", 0)
            + ValueOr(fact_ledger, "improvement_cost", 0)
        transfer_income ==
            Dec(fact_ledger.disposal_price[1].value
                - fact_ledger.acquisition_price[1].value - necessary_expenses)
    IN  [f EXCEPT !.pc = "check_exemption",
                  !.transfer_income = transfer_income,
                  !.traces = Append(@, Trace("calculate_transfer_income",
                                             "basic_formula", transfer_income, FALSE))]

\* _check_exemption, and the branch of calculate() on its is_exempt
check_exemption(self, fact_ledger, f) ==
    LET is_primary == ValueOr(fact_ledger, "is_primary_residence", FALSE)
        residence_years == ValueOr(fact_ledger, "residence_period_years", 0)
        holding_years == holding_period_years(fact_ledger)[1]
        eligibility == check_exemption_eligibility(self, is_primary, residence_years,
                                                   holding_years)
        exemption_info == eligibility.info
    IN  IF eligibility.raised # "none" THEN Raise(f, eligibility.raised)
        ELSE IF exemption_info # None
                /\ DecLe(Dec(fact_ledger.disposal_price[1].value),
                         Dec(exemption_info[1].exemption_limit))
        THEN [f EXCEPT !.pc = "exempt_result",
                       !.traces = Append(@, Trace("check_exemption",
                                                  exemption_info[1].name, Zero, TRUE))]
        ELSE [f EXCEPT !.pc = "long_term_deduction",
                       !.warnings = IF exemption_info # None
                                    THEN Append(@, "exemption_limit_exceeded") ELSE @,
                       !.traces = Append(@, Trace("check_exemption", "no_exemption",
                                                  Zero, FALSE))]

\* The keywords _create_exempt_result passes to CalculationResult
ExemptResultKeywords(self, f) ==
    [fact_ledger_id |-> "transaction_id",
     transfer_income |-> f.transfer_income,
     long_term_deduction |-> Zero,
     transfer_income_amount |-> f.transfer_income,
     basic_deduction |-> Zero,
     taxable_income |-> Zero,
     base_tax_rate |-> Rate(0),
     progressive_deduction |-> Zero,
     surcharge_rate |-> Rate(0),
     calculated_tax |-> Zero,
     local_tax |-> Zero,
     exemption_amount |-> f.transfer_income,
     final_tax |-> Zero,
     traces |-> f.traces,
     rule_version |-> self.version,
     warnings |-> f.warnings]

\* The keywords calculate() passes to CalculationResult (lines 127-144)
ResultKeywords(self, f, final_tax) ==
    [fact_ledger_id |-> "transaction_id",
     transfer_income |-> f.transfer_income,
     long_term_deduction |-> f.long_term_deduction,
     transfer_income_amount |-> f.transfer_income_amount,
     basic_deduction |-> f.basic_deduction,
     taxable_income |-> f.taxable_income,
     base_tax_rate |-> f.tax_result.base_tax_rate,
     progressive_deduction |-> f.tax_result.progressive_deduction,
     surcharge_rate |-> f.tax_result.surcharge_rate,
     calculated_tax |-> f.tax_result.calculated_tax,
     local_tax |-> f.local_tax,
     exemption_amount |-> Zero,
     final_tax |-> final_tax,
     traces |-> f.traces,
     rule_version |-> self.version,
     warnings |-> f.warnings]

\* return CalculationResult(...): the object is returned, or the TypeError of
\* its constructor propagates out of calculate()
ReturnResult(f, constructed) ==
    IF constructed.raised # "none" THEN Raise(f, constructed.raised)
    ELSE [f EXCEPT !.pc = "returned", !.result = constructed.obj]

\* _create_exempt_result
create_exempt_result(self, f) ==
    ReturnResult(f, NewCalculationResult(ExemptResultKeywords(self, f)))

\* _calculate_long_term_deduction
calculate_long_term_deduction(self, fact_ledger, f) ==
    LET holding_period == holding_period_years(fact_ledger)[1]
        is_primary == ValueOr(fact_ledger, "is_primary_residence", FALSE)
        residence_years == ValueOr(fact_ledger, "residence_period_years", 0)
        deduction_rate == calculate_long_term_deduction_rate(self, holding_period,
                                                             is_primary, residence_years)
        deduction_amount == DecMulRate(f.transfer_income, deduction_rate)
    IN  [f EXCEPT !.pc = "transfer_income_amount",
                  !.long_term_deduction = deduction_amount,
                  !.exact = @ /\ ExactMul(f.transfer_income, deduction_rate),
                  !.traces = Append(@, Trace("calculate_long_term_deduction",
                                             "long_term_holding_deduction",
                                             deduction_amount, FALSE))]

\* calculate(), lines 71-83: transfer_income_amount
calculate_transfer_income_amount(f) ==
    LET transfer_income_amount ==
            DecMax(DecSub(f.transfer_income, f.long_term_deduction), Zero)
    IN  [f EXCEPT !.pc = "basic_deduction",
                  !.transfer_income_amount = transfer_income_amount,
                  !.traces = Append(@, Trace("calculate_transfer_income_amount",
                                             "basic_calculation",
                                             transfer_income_amount, FALSE))]

\* Mutant: the basic deduction subtracted without the clamp at 0
ApplyBasicDeductionNoClamp(self, f) ==
    [f EXCEPT !.pc = "tax",
              !.basic_deduction = get_basic_deduction(self),
              !.taxable_income = DecSub(f.transfer_income_amount, get_basic_deduction(self)),
              !.traces = Append(@, Trace("apply_basic_deduction", "basic_deduction",
                                         DecSub(f.transfer_income_amount,
                                                get_basic_deduction(self)), FALSE))]

\* calculate(), lines 85-99: basic deduction and taxable_income
apply_basic_deduction(self, f) ==
    LET basic_deduction == get_basic_deduction(self)
        taxable_income == DecMax(DecSub(f.transfer_income_amount, basic_deduction), Zero)
    IN  [f EXCEPT !.pc = "tax",
                  !.basic_deduction = basic_deduction,
                  !.taxable_income = taxable_income,
                  !.traces = Append(@, Trace("apply_basic_deduction", "basic_deduction",
                                             taxable_income, FALSE))]

\* _calculate_short_term_tax
calculate_short_term_tax(self, f, asset_type, holding_period) ==
    LET rate_info == get_short_term_rate(self, asset_type, holding_period)
        tax_rate == rate_info[1].rate
        calculated_tax == DecMulRate(f.taxable_income, tax_rate)
    IN  IF rate_info = None THEN Raise(f, "ValueError:no_short_term_rate")
        ELSE [f EXCEPT !.pc = "local_tax",
                       !.tax_result = TaxResult("short_term", tax_rate, Zero, Rate(0),
                                                calculated_tax),
                       !.exact = @ /\ ExactMul(f.taxable_income, tax_rate),
                       !.traces = Append(@, Trace("calculate_short_term_tax",
                                                  rate_info[1].name, calculated_tax,
                                                  FALSE))]

\* _calculate_tax, lines 388-443: the progressive path
calculate_progressive_path(self, f, house_count, holding_period) ==
    LET bracket == calculate_progressive_tax(self, f.taxable_income)
        surcharge_rate == get_multi_house_surcharge(self, house_count,
                                                    f.is_adjusted_area, holding_period)
        total_rate == FloatAdd(bracket.rate, surcharge_rate)
        calculated_tax ==
            DecMax(DecSub(DecMulRate(f.taxable_income, total_rate), bracket.deduction),
                   Zero)
    IN  IF bracket.raised # "none" THEN Raise(f, bracket.raised)
        ELSE [f EXCEPT !.pc = "local_tax",
                       !.tax_result = TaxResult("progressive", bracket.rate,
                                                bracket.deduction, surcharge_rate,
                                                calculated_tax),
                       !.exact = @ /\ ExactMul(f.taxable_income, total_rate),
                       !.warnings = IF FloatPositive(surcharge_rate)
                                    THEN Append(@, "multi_house_surcharge") ELSE @,
                       !.traces = Append(@, Trace("calculate_progressive_tax",
                                                  "progressive_tax_brackets",
                                                  calculated_tax, FALSE))]

\* Mutant: _calculate_tax sending holdings of exactly 2 years down the
\* short-term path
CalculateTaxThrough2(self, fact_ledger, f) ==
    IF holding_period_years(fact_ledger)[1] <= 2
    THEN calculate_short_term_tax(self, f,
                                  ValueOr(fact_ledger, "asset_type", "residential"),
                                  holding_period_years(fact_ledger)[1])
    ELSE calculate_progressive_path(self, f, ValueOr(fact_ledger, "house_count", 1),
                                    holding_period_years(fact_ledger)[1])

\* _calculate_tax
calculate_tax(self, fact_ledger, f) ==
    LET holding_period == holding_period_years(fact_ledger)[1]
        asset_type == ValueOr(fact_ledger, "asset_type", "residential")
        house_count == ValueOr(fact_ledger, "house_count", 1)
    IN  IF holding_period < 2
        THEN calculate_short_term_tax(self, f, asset_type, holding_period)
        ELSE calculate_progressive_path(self, f, house_count, holding_period)

\* calculate(), lines 106-121: local income tax
calculate_local_tax(self, f) ==
    LET local_tax_rate == get_local_tax_rate(self)
        local_tax == DecMulRate(f.tax_result.calculated_tax, local_tax_rate)
    IN  [f EXCEPT !.pc = "result",
                  !.local_tax = local_tax,
                  !.exact = @ /\ ExactMul(f.tax_result.calculated_tax, local_tax_rate),
                  !.traces = Append(@, Trace("calculate_local_tax", "local_income_tax",
                                             local_tax, FALSE))]

\* calculate(), lines 123-144: final_tax and the result object
create_result(self, f) ==
    LET final_tax == DecAdd(f.tax_result.calculated_tax, f.local_tax)
    IN  ReturnResult([f EXCEPT !.final_tax = final_tax],
                     NewCalculationResult(ResultKeywords(self, f, final_tax)))

-----------------------------------------------------------------------------
(* Inputs of the ledger life cycle *)

Users == {"kim", "system"}

\* Day numbers, prices and periods the callers supply (a negative amount is
\* an input freeze must reject)
DateValues == {10, 20}
MoneyValues == {-1, 5}
PeriodValues == {-1, 2}

SlotValues(n) ==
    CASE n \in {"transaction_date", "acquisition_date", "disposal_date"} -> DateValues
      [] n \in {"acquisition_price", "disposal_price", "acquisition_cost",
                "disposal_cost", "improvement_cost"} -> MoneyValues
      [] n = "residence_period_years" -> PeriodValues
      [] n = "house_count" -> {2}
      [] n = "is_primary_residence" -> {TRUE}
      [] n = "asset_type" -> {"residential"}
      [] n = "asset_description" -> {"apartment"}

\* Fact(value=v, is_confirmed=True, confidence=1.0, entered_by="kim")
Confirmed(v) == MkFact(v, "user_input", FullConfidence, TRUE, "kim")
\* Fact(value=v, entered_by="kim"): confidence defaults to 1.0, unconfirmed
Unconfirmed(v) == MkFact(v, "user_input", FullConfidence, FALSE, "kim")

\* The Facts a caller passes for slot n (each one passes __post_init__):
\* confirmed ones, and for the required slots unconfirmed ones too
FactsFor(n) ==
    {f \in {Confirmed(v) : v \in SlotValues(n)}
            \cup (IF \E i \in 1..Len(required_fields) : required_fields[i] = n
                  THEN {Unconfirmed(v) : v \in SlotValues(n)} ELSE {}) :
        PostInit(f) = "ok"}

\* The names update_field is called with: Fact slots, metadata fields, a
\* derived property and a name that is no attribute of the ledger
UpdateNames == FactSlots \cup {"is_frozen", "version", "capital_gain", "no_such_field"}

\* The type-matching Facts for a name (a metadata or unknown name gets a bool Fact)
UpdateFacts(n) == IF n \in FactSlots THEN FactsFor(n) ELSE FactsFor("is_primary_residence")

Bare(v) == [isFact |-> FALSE, value |-> v, fact |-> Unconfirmed(v)]
Given(f) == [isFact |-> TRUE, value |-> f.value, fact |-> f]

\* The mappings FactLedger.create is called with
CreateInputs ==
    { <<>>,
      \* test_create_with_dict: one confirmed Fact, one bare value
      [n \in {"acquisition_date", "disposal_price"} |->
          IF n = "acquisition_date" THEN Given(Confirmed(10)) ELSE Bare(5)],
      \* all four required fields as confirmed Facts
      [n \in {"acquisition_date", "acquisition_price", "disposal_date", "disposal_price"} |->
          IF n = "acquisition_date" THEN Given(Confirmed(10))
          ELSE IF n = "disposal_date" THEN Given(Confirmed(20))
          ELSE Given(Confirmed(5))],
      \* three required fields confirmed, disposal_price a bare value
      [n \in {"acquisition_date", "acquisition_price", "disposal_date", "disposal_price"} |->
          IF n = "acquisition_date" THEN Given(Confirmed(10))
          ELSE IF n = "disposal_date" THEN Given(Confirmed(20))
          ELSE IF n = "disposal_price" THEN Bare(5)
          ELSE Given(Confirmed(5))],
      \* every required field a bare value
      [n \in {"acquisition_date", "acquisition_price", "disposal_date", "disposal_price"} |->
          IF n \in {"acquisition_date", "disposal_date"} THEN Bare(10) ELSE Bare(5)] }

-----------------------------------------------------------------------------
(* State of the parts a specification does not use *)

\* A FactLedger call: the operation, its arguments (create: facts, by;
\* update_field: name, arg) and "ok" or the exception raised
CallRecord(op, facts, by, name, arg, outcome) ==
    [op |-> op, facts |-> facts, by |-> by, name |-> name, arg |-> arg,
     outcome |-> outcome]
NoCall == CallRecord("none", <<>>, "", "", None, "none")
NoFactCall == [op |-> "none", confidence |-> 0, is_confirmed |-> FALSE, raised |-> "none"]
NoRules == <<>>
NoCalc == NewFrame("idle", FALSE)
NoQuery == [op |-> "none"]

-----------------------------------------------------------------------------
(* Spec: the life cycle of one FactLedger *)

Init ==
    /\ ledger = None
    /\ call = NoCall
    /\ ncalls = 0
    /\ fact = None
    /\ factCall = NoFactCall
    /\ rules = NoRules
    /\ calc = NoCalc
    /\ query = NoQuery
    /\ peer = NoCalc

\* ledger = FactLedger.create(facts, created_by)
Create(facts, created_by) ==
    /\ ledger = None
    /\ ledger' = Some(create(facts, created_by))
    /\ call' = CallRecord("create", facts, created_by, "", None, "ok")
    /\ UNCHANGED <<ncalls, fact, factCall, rules, calc, query, peer>>

\* ledger.update_field(field_name, f)
UpdateField(field_name, f) ==
    /\ ledger # None
    /\ ncalls < MaxCalls
    /\ ledger' = Some(UpdateEffect(ledger[1], field_name, f))
    /\ call' = CallRecord("update_field", <<>>, "", field_name, Some(f),
                          UpdateOutcome(ledger[1], field_name))
    /\ ncalls' = ncalls + 1
    /\ UNCHANGED <<fact, factCall, rules, calc, query, peer>>

\* ledger.freeze()
Freeze ==
    /\ ledger # None
    /\ ncalls < MaxCalls
    /\ ledger' = Some(FreezeEffect(ledger[1]))
    /\ call' = CallRecord("freeze", <<>>, "", "", None, FreezeOutcome(ledger[1]))
    /\ ncalls' = ncalls + 1
    /\ UNCHANGED <<fact, factCall, rules, calc, query, peer>>

Next ==
    \/ \E facts \in CreateInputs, by \in Users : Create(facts, by)
    \/ \E n \in UpdateNames : \E f \in UpdateFacts(n) : UpdateField(n, f)
    \/ Freeze

Spec == Init /\ [][Next]_vars

-----------------------------------------------------------------------------
(* SpecFact: chains of Fact construction, confirm() and update_value() *)

FactValues == {1, 2}
FactSources == {"user_input", "system", "ocr_document"}
\* confidences a caller may pass, in tenths: in range, and out of range on both sides
ConfidenceArgs == {-1, 0, 5, WrapConfidence, FullConfidence, FullConfidence + 1}

\* What a Fact operation leaves behind: the object it returned (None when it
\* raised) and the record of the call
FactCallRecord(op, confidence, is_confirmed, r) ==
    [op |-> op, confidence |-> confidence, is_confirmed |-> is_confirmed,
     raised |-> r.raised]

\* fact = Fact(value, source, confidence, is_confirmed, entered_by)
Construct(v, src, c, ic, by) ==
    /\ fact' = NewFact(MkFact(v, src, c, ic, by)).obj
    /\ factCall' = FactCallRecord("Fact", c, ic, NewFact(MkFact(v, src, c, ic, by)))
    /\ UNCHANGED <<ledger, call, ncalls, rules, calc, query, peer>>

\* fact = fact.confirm(by)
Confirm(by) ==
    /\ fact # None
    /\ fact' = confirm(fact[1], by).obj
    /\ factCall' = FactCallRecord("confirm", FullConfidence, TRUE, confirm(fact[1], by))
    /\ UNCHANGED <<ledger, call, ncalls, rules, calc, query, peer>>

\* fact = fact.update_value(v, by)
UpdateValue(v, by) ==
    /\ fact # None
    /\ fact' = update_value(fact[1], v, by).obj
    /\ factCall' = FactCallRecord("update_value", fact[1].confidence, FALSE,
                                  update_value(fact[1], v, by))
    /\ UNCHANGED <<ledger, call, ncalls, rules, calc, query, peer>>

\* fact = Fact.create_user_input(v, by, ic)
CreateUserInput(v, by, ic) ==
    /\ fact' = create_user_input(v, by, ic).obj
    /\ factCall' = FactCallRecord("create_user_input",
                                  IF ic THEN FullConfidence ELSE WrapConfidence, ic,
                                  create_user_input(v, by, ic))
    /\ UNCHANGED <<ledger, call, ncalls, rules, calc, query, peer>>

\* fact = Fact.create_estimated(v, c, src)
CreateEstimated(v, c, src) ==
    /\ fact' = create_estimated(v, c, src).obj
    /\ factCall' = FactCallRecord("create_estimated", c, FALSE, create_estimated(v, c, src))
    /\ UNCHANGED <<ledger, call, ncalls, rules, calc, query, peer>>

\* fact = Fact.create_from_agent(v, agent, reasoning, c)
CreateFromAgent(v, agent, c) ==
    /\ fact' = create_from_agent(v, agent, c).obj
    /\ factCall' = FactCallRecord("create_from_agent", c, FALSE,
                                  create_from_agent(v, agent, c))
    /\ UNCHANGED <<ledger, call, ncalls, rules, calc, query, peer>>

NextFact ==
    \/ \E v \in FactValues, src \in FactSources, c \in ConfidenceArgs,
          ic \in BOOLEAN, by \in Users : Construct(v, src, c, ic, by)
    \/ \E by \in Users : Confirm(by)
    \/ \E v \in FactValues, by \in Users : UpdateValue(v, by)
    \/ \E v \in FactValues, by \in Users, ic \in BOOLEAN : CreateUserInput(v, by, ic)
    \/ \E v \in FactValues, c \in ConfidenceArgs, src \in FactSources :
          CreateEstimated(v, c, src)
    \/ \E v \in FactValues, c \in ConfidenceArgs : CreateFromAgent(v, "agent-1", c)

SpecFact == Init /\ [][NextFact]_vars

-----------------------------------------------------------------------------
(* SpecCalc: create -> freeze -> TaxCalculator.calculate, step by step *)

\* The day number of every acquisition
AcquisitionDay == 0

\* Disposal day numbers: holdings of 0, 1 (one day short of 2), exactly 2, 3, 5
\* and 10 years
HoldingDays == {200, 729, 730, 1095, 1825, 3650}

\* <<acquisition_price, disposal_price>> in won: the reference scenarios, a gain
\* that puts the taxable income on the first bracket threshold, and no gain
PricePairs ==
    { <<500000000, 800000000>>, <<800000000, 1500000000>>,
      <<500000000, 516500000>>, <<800000000, 800000000>> }

\* The cost slots a ledger fills
CostOptions ==
    { {}, {"acquisition_cost"}, {"acquisition_cost", "disposal_cost", "improvement_cost"} }

\* is_primary_residence and residence_period_years: left out, or set
Residences ==
    { [is_primary |-> None, years |-> None],
      [is_primary |-> Some(TRUE), years |-> None],
      [is_primary |-> Some(TRUE), years |-> Some(1)],
      [is_primary |-> Some(TRUE), years |-> Some(3)],
      [is_primary |-> Some(FALSE), years |-> Some(3)] }

\* asset_type and house_count: left out, or set
Profiles ==
    { [asset_type |-> None, house_count |-> None],
      [asset_type |-> Some("residential"), house_count |-> Some(1)],
      [asset_type |-> Some("residential"), house_count |-> Some(2)],
      [asset_type |-> Some("residential"), house_count |-> Some(3)],
      [asset_type |-> Some("non_residential"), house_count |-> None],
      [asset_type |-> Some("land"), house_count |-> Some(2)] }

CalcCases ==
    [prices : PricePairs, days : HoldingDays, costs : CostOptions,
     residence : Residences, profile : Profiles]

\* The value a case gives slot n
CaseValue(c, n) ==
    CASE n = "acquisition_date" -> AcquisitionDay
      [] n = "disposal_date" -> c.days
      [] n = "acquisition_price" -> c.prices[1]
      [] n = "disposal_price" -> c.prices[2]
      [] n = "acquisition_cost" -> 10000000
      [] n = "disposal_cost" -> 5000000
      [] n = "improvement_cost" -> 20000000
      [] n = "is_primary_residence" -> c.residence.is_primary[1]
      [] n = "residence_period_years" -> c.residence.years[1]
      [] n = "asset_type" -> c.profile.asset_type[1]
      [] n = "house_count" -> c.profile.house_count[1]

\* The slots a case fills
CaseSlots(c) ==
    {"acquisition_date", "acquisition_price", "disposal_date", "disposal_price"}
    \cup c.costs
    \cup (IF c.residence.is_primary # None THEN {"is_primary_residence"} ELSE {})
    \cup (IF c.residence.years # None THEN {"residence_period_years"} ELSE {})
    \cup (IF c.profile.asset_type # None THEN {"asset_type"} ELSE {})
    \cup (IF c.profile.house_count # None THEN {"house_count"} ELSE {})

\* The mappings FactLedger.create is called with before a calculation: every
\* value a confirmed Fact
CalcCreateInputs ==
    {[n \in CaseSlots(c) |-> Given(Confirmed(CaseValue(c, n)))] : c \in CalcCases}

InitCalc ==
    /\ ledger = None
    /\ call = NoCall
    /\ ncalls = 0
    /\ fact = None
    /\ factCall = NoFactCall
    /\ rules \in RuleTables
    /\ calc = NoCalc
    /\ query = NoQuery
    /\ peer = NoCalc

\* calculator.calculate(ledger, is_adjusted_area): entry and frozen check
Calculate(is_adjusted_area) ==
    /\ ledger # None
    /\ calc.pc = "idle"
    /\ calc' = Start(ledger[1], is_adjusted_area)
    /\ UNCHANGED <<ledger, call, ncalls, fact, factCall, rules, query, peer>>

\* Mutant: step 1 stores the cost it defaulted to 0 back into the ledger
CalculateTransferIncomeFillsCosts ==
    /\ calc.pc = "transfer_income"
    /\ calc' = calculate_transfer_income(ledger[1], calc)
    /\ ledger' = Some([n \in DOMAIN ledger[1] |->
                         IF n \in {"acquisition_cost", "disposal_cost", "improvement_cost"}
                            /\ ledger[1][n] = None
                         THEN Some(Confirmed(0)) ELSE ledger[1][n]])
    /\ UNCHANGED <<call, ncalls, fact, factCall, rules, query, peer>>

\* step 1: transfer income
CalculateTransferIncome ==
    /\ calc.pc = "transfer_income"
    /\ calc' = calculate_transfer_income(ledger[1], calc)
    /\ UNCHANGED <<ledger, call, ncalls, fact, factCall, rules, query, peer>>

\* step 2: exemption check
CheckExemption ==
    /\ calc.pc = "check_exemption"
    /\ calc' = check_exemption(rules, ledger[1], calc)
    /\ UNCHANGED <<ledger, call, ncalls, fact, factCall, rules, query, peer>>

\* the exempt branch: return self._create_exempt_result(...)
CreateExemptResult ==
    /\ calc.pc = "exempt_result"
    /\ calc' = create_exempt_result(rules, calc)
    /\ UNCHANGED <<ledger, call, ncalls, fact, factCall, rules, query, peer>>

\* step 3: long-term holding deduction
CalculateLongTermDeduction ==
    /\ calc.pc = "long_term_deduction"
    /\ calc' = calculate_long_term_deduction(rules, ledger[1], calc)
    /\ UNCHANGED <<ledger, call, ncalls, fact, factCall, rules, query, peer>>

\* step 4: transfer income amount
CalculateTransferIncomeAmount ==
    /\ calc.pc = "transfer_income_amount"
    /\ calc' = calculate_transfer_income_amount(calc)
    /\ UNCHANGED <<ledger, call, ncalls, fact, factCall, rules, query, peer>>

\* step 5: basic deduction
ApplyBasicDeduction ==
    /\ calc.pc = "basic_deduction"
    /\ calc' = apply_basic_deduction(rules, calc)
    /\ UNCHANGED <<ledger, call, ncalls, fact, factCall, rules, query, peer>>

\* step 6: rate selection and tax
CalculateTax ==
    /\ calc.pc = "tax"
    /\ calc' = calculate_tax(rules, ledger[1], calc)
    /\ UNCHANGED <<ledger, call, ncalls, fact, factCall, rules, query, peer>>

\* step 7: local income tax
CalculateLocalTax ==
    /\ calc.pc = "local_tax"
    /\ calc' = calculate_local_tax(rules, calc)
    /\ UNCHANGED <<ledger, call, ncalls, fact, factCall, rules, query, peer>>

\* step 8: final tax and return CalculationResult(...)
CreateResult ==
    /\ calc.pc = "result"
    /\ calc' = create_result(rules, calc)
    /\ UNCHANGED <<ledger, call, ncalls, fact, factCall, rules, query, peer>>

\* The caller of SpecCalc creates the ledger, may freeze it, and then calls
\* calculate once, on the frozen ledger or on the one it did not freeze
NextCalc ==
    \/ \E facts \in CalcCreateInputs : Create(facts, "kim")
    \/ (calc.pc = "idle" /\ ledger # None /\ ~Truthy(ledger[1].is_frozen) /\ Freeze)
    \/ \E is_adjusted_area \in BOOLEAN : Calculate(is_adjusted_area)
    \/ CalculateTransferIncome
    \/ CheckExemption
    \/ CreateExemptResult
    \/ CalculateLongTermDeduction
    \/ CalculateTransferIncomeAmount
    \/ ApplyBasicDeduction
    \/ CalculateTax
    \/ CalculateLocalTax
    \/ CreateResult

SpecCalc == InitCalc /\ [][NextCalc]_vars

-----------------------------------------------------------------------------
(* Claims about Fact and FactLedger *)

ValueErrors ==
    {"ValueError:already_frozen", "ValueError:frozen", "ValueError:required_not_set",
     "ValueError:not_confirmed", "ValueError:date_order",
     "ValueError:acquisition_price", "ValueError:disposal_price", "ValueError:cost",
     "ValueError:residence_period_years"}

\* The conditions the specification gives for a successful freeze
AmountSlots ==
    {"acquisition_price", "disposal_price", "acquisition_cost", "disposal_cost",
     "improvement_cost", "residence_period_years"}
RequiredSlots == {"acquisition_date", "acquisition_price", "disposal_date", "disposal_price"}
FreezeConditions(l) ==
    /\ \A n \in RequiredSlots : l[n] # None /\ l[n][1].is_confirmed
    /\ l.disposal_date[1].value >= l.acquisition_date[1].value
    /\ \A n \in AmountSlots : l[n] # None => l[n][1].value >= 0

\* C1: freeze() on a ledger that is not frozen succeeds (sets is_frozen to True
\* and returns the ledger, nothing else changed) if and only if the four required
\* slots hold confirmed Facts, disposal_date >= acquisition_date and every present
\* price, cost and residence period is >= 0; otherwise it raises ValueError.
C1_FreezeIff ==
    [][(call'.op = "freeze" /\ ~Truthy(ledger[1].is_frozen)) =>
          IF FreezeConditions(ledger[1])
          THEN /\ call'.outcome = "ok"
               /\ IsTrue(ledger'[1].is_frozen)
               /\ ledger' = Some([ledger[1] EXCEPT !.is_frozen = PyBool(TRUE)])
          ELSE /\ call'.outcome \in ValueErrors
               /\ ~Truthy(ledger'[1].is_frozen)]_vars

\* C1 witness: a freeze() that succeeded after the ledger had been updated
C1_Witness ==
    /\ call.op = "freeze" /\ call.outcome = "ok"
    /\ ncalls >= 2
    /\ IsTrue(ledger[1].is_frozen)

\* C2: frozen is absorbing: from a state in which freeze() has succeeded, every
\* step leaves the whole ledger (is_frozen and every slot) as it is, every
\* update_field raises the "frozen" ValueError and every freeze raises the
\* distinct "already frozen" ValueError.
C2_FrozenAbsorbing ==
    [][(ledger # None /\ IsTrue(ledger[1].is_frozen)) =>
          /\ ledger' = ledger
          /\ call'.op = "update_field" => call'.outcome = "ValueError:frozen"
          /\ call'.op = "freeze" => call'.outcome = "ValueError:already_frozen"
          /\ "ValueError:frozen" # "ValueError:already_frozen"]_vars

\* C2 witness: an update_field rejected on a ledger that freeze() had frozen
C2_Witness ==
    /\ ledger # None /\ IsTrue(ledger[1].is_frozen)
    /\ call.op = "update_field" /\ call.outcome = "ValueError:frozen"
    /\ call.name \in FactSlots /\ call.arg # ledger[1][call.name]

\* C5: every Fact that exists satisfies is_confirmed => confidence = 1.0 and
\* 0 <= confidence <= 1, and an operation whose Fact would violate either raises
\* ValueError and yields no Fact.
C5_FactInvariant ==
    /\ fact # None =>
          /\ 0 <= fact[1].confidence /\ fact[1].confidence <= FullConfidence
          /\ fact[1].is_confirmed => fact[1].confidence = FullConfidence
    /\ (factCall.op # "none"
        /\ (factCall.confidence < 0 \/ factCall.confidence > FullConfidence
            \/ (factCall.is_confirmed /\ factCall.confidence # FullConfidence))) =>
          (factCall.raised = "ValueError" /\ fact = None)
    /\ (factCall.op # "none"
        /\ 0 <= factCall.confidence /\ factCall.confidence <= FullConfidence
        /\ (factCall.is_confirmed => factCall.confidence = FullConfidence)) =>
          (factCall.raised = "none" /\ fact # None)

\* C5 witness: a Fact that update_value() returned: it keeps the confidence 1.0
\* and is unconfirmed
C5_Witness ==
    /\ factCall.op = "update_value" /\ fact # None
    /\ fact[1].confidence = FullConfidence /\ ~fact[1].is_confirmed

\* C6: create stores a value that is a Fact unchanged and wraps any other value
\* as Fact(value, source user_input, confidence 0.9, unconfirmed, entered_by =
\* created_by); and a freeze() on a ledger with an unconfirmed Fact (so also a
\* wrapped bare value) in a required slot fails and leaves the ledger unfrozen.
C6_CreateWraps ==
    [][/\ call'.op = "create" =>
             \A n \in FactSlots :
                IF n \notin DOMAIN call'.facts THEN ledger'[1][n] = None
                ELSE IF call'.facts[n].isFact
                     THEN ledger'[1][n] = Some(call'.facts[n].fact)
                     ELSE ledger'[1][n] =
                            Some([value |-> call'.facts[n].value,
                                  source |-> "user_input",
                                  confidence |-> WrapConfidence,
                                  is_confirmed |-> FALSE,
                                  entered_by |-> call'.by])
       /\ (call'.op = "freeze"
           /\ \E n \in RequiredSlots :
                 ledger[1][n] # None /\ ~ledger[1][n][1].is_confirmed) =>
             (call'.outcome \in ValueErrors /\ ~IsTrue(ledger'[1].is_frozen))]_vars

\* C6 witness: freeze() failed on a required slot that still holds the Fact
\* create wrapped around a bare value
C6_Witness ==
    /\ call.op = "freeze" /\ call.outcome = "ValueError:not_confirmed"
    /\ \E n \in RequiredSlots :
          /\ ledger[1][n] # None
          /\ ledger[1][n][1].confidence = WrapConfidence
          /\ ledger[1][n][1].entered_by = ledger[1].created_by
          /\ ~ledger[1][n][1].is_confirmed

\* The names the claim C7 takes to be known: the ledger's attributes
KnownNames == FactSlots \cup MetaFields \cup Properties

\* C7 (as claimed): on an unfrozen ledger update_field raises for an unknown
\* name and otherwise sets exactly the slot `name` to `fact`, leaving every other
\* slot, the version and is_frozen unchanged.
C7_UpdateFrame ==
    [][(call'.op = "update_field" /\ ~Truthy(ledger[1].is_frozen)) =>
          IF call'.name \notin KnownNames
          THEN call'.outcome # "ok" /\ ledger' = ledger
          ELSE /\ call'.outcome = "ok"
               /\ \A n \in FactSlots \ {call'.name} : ledger'[1][n] = ledger[1][n]
               /\ call'.name \in FactSlots => ledger'[1][call'.name] = call'.arg
               /\ ledger'[1].version = ledger[1].version
               /\ ledger'[1].is_frozen = ledger[1].is_frozen]_vars

-----------------------------------------------------------------------------
(* Claims about TaxCalculator.calculate *)

\* Every Decimal product of the run is represented without loss
Representable == calc.exact

\* calculate() has ended: it returned or an exception left it
Terminated == calc.pc \in {"returned", "raised"}

\* The exemption conditions hold for a ledger
Eligible(self, l) ==
    check_exemption_eligibility(self, ValueOr(l, "is_primary_residence", FALSE),
                                ValueOr(l, "residence_period_years", 0),
                                holding_period_years(l)[1]).info # None

\* The disposal price is within the exemption limit of the rule table
WithinLimit(self, l) ==
    l.disposal_price[1].value <= self.one_house_exemption.exemption_limit

\* The rate lookup of a ledger finds a covering row: a short-term row for the
\* asset type and holding period, or a bracket reaching the taxable income
LookupsCovered(self, l, taxable_income) ==
    IF holding_period_years(l)[1] < 2
    THEN \E i \in 1..Len(self.short_term_rates) :
            /\ self.short_term_rates[i].asset_type = ValueOr(l, "asset_type", "residential")
            /\ self.short_term_rates[i].holding_period_min <= holding_period_years(l)[1]
            /\ holding_period_years(l)[1] < self.short_term_rates[i].holding_period_max
    ELSE \E i \in 1..Len(self.progressive_tax_brackets) :
            \/ self.progressive_tax_brackets[i].threshold = None
            \/ DecLe(taxable_income, Dec(self.progressive_tax_brackets[i].threshold[1]))

C4_CalculateReturns ==
    (Terminated /\ Truthy(ledger[1].is_frozen)
     /\ LookupsCovered(rules, ledger[1], calc.taxable_income)) =>
        /\ calc.pc = "returned"
        /\ calc.result # None
        /\ ~(Eligible(rules, ledger[1]) /\ WithinLimit(rules, ledger[1])) =>
              /\ calc.result[1].transfer_income = calc.transfer_income
              /\ calc.result[1].long_term_deduction = calc.long_term_deduction
              /\ calc.result[1].taxable_income = calc.taxable_income
              /\ calc.result[1].base_tax_rate = calc.tax_result.base_tax_rate
              /\ calc.result[1].progressive_deduction = calc.tax_result.progressive_deduction
              /\ calc.result[1].surcharge_rate = calc.tax_result.surcharge_rate
              /\ calc.result[1].calculated_tax = calc.tax_result.calculated_tax
              /\ calc.result[1].local_tax = calc.local_tax
              /\ calc.result[1].exemption_amount = Zero
              /\ calc.result[1].final_tax = calc.final_tax
              /\ calc.result[1].traces = calc.traces
              /\ calc.result[1].rule_version = rules.version
              /\ calc.result[1].warnings = calc.warnings

\* C8 (as claimed): when the exemption conditions hold and disposal_price <=
\* exemption_limit, calculate returns right after the exemption check with
\* exemption_amount = transfer_income, the tax fields 0, no warnings and exactly
\* one trace beyond the transfer-income trace; no later step runs.
C8_ExemptShortCircuit ==
    (Terminated /\ Truthy(ledger[1].is_frozen)
     /\ Eligible(rules, ledger[1]) /\ WithinLimit(rules, ledger[1])) =>
        /\ calc.pc = "returned"
        /\ calc.result # None
        /\ calc.result[1].exemption_amount = calc.transfer_income
        /\ calc.result[1].taxable_income = Zero
        /\ calc.result[1].calculated_tax = Zero
        /\ calc.result[1].local_tax = Zero
        /\ calc.result[1].final_tax = Zero
        /\ calc.result[1].warnings = <<>>
        /\ Len(calc.result[1].traces) = 2
        /\ calc.result[1].traces[1].step_name = "calculate_transfer_income"
        /\ calc.result[1].traces[2].step_name = "check_exemption"
        /\ calc.tax_result = NoTaxResult

\* The exemption-limit warnings among the warnings of the run
LimitWarnings == {i \in 1..Len(calc.warnings) : calc.warnings[i] = "exemption_limit_exceeded"}

\* The steps past the exemption check
PastExemptionCheck ==
    calc.pc \in {"long_term_deduction", "transfer_income_amount", "basic_deduction",
                 "tax", "local_tax", "result", "returned"}
    \/ (calc.pc = "raised" /\ Len(calc.traces) >= 2)

\* C9 (as claimed): when the conditions hold but disposal_price > exemption_limit
\* calculate appends exactly one exemption-limit warning, goes on to the
\* long-term deduction, taxes the whole transfer income and returns
\* exemption_amount = 0; when the conditions do not hold the exemption check
\* adds no warning.
C9_OverLimitWarns ==
    /\ (PastExemptionCheck /\ Eligible(rules, ledger[1]) /\ ~WithinLimit(rules, ledger[1])) =>
          /\ Cardinality(LimitWarnings) = 1
          /\ Len(calc.traces) >= 2 /\ calc.traces[2].applied_rule = "no_exemption"
          /\ Len(calc.traces) >= 3 =>
                /\ calc.traces[3].step_name = "calculate_long_term_deduction"
                /\ calc.long_term_deduction =
                      DecMulRate(calc.transfer_income,
                                 calculate_long_term_deduction_rate(rules,
                                     holding_period_years(ledger[1])[1],
                                     ValueOr(ledger[1], "is_primary_residence", FALSE),
                                     ValueOr(ledger[1], "residence_period_years", 0)))
    /\ (PastExemptionCheck /\ ~Eligible(rules, ledger[1])) => LimitWarnings = {}
    /\ (Terminated /\ Truthy(ledger[1].is_frozen)
        /\ Eligible(rules, ledger[1]) /\ ~WithinLimit(rules, ledger[1])
        /\ LookupsCovered(rules, ledger[1], calc.taxable_income)) =>
          /\ calc.pc = "returned"
          /\ calc.result # None
          /\ calc.result[1].exemption_amount = Zero
          /\ calc.result[1].transfer_income = calc.transfer_income

\* The step names of the two rate paths among the traces t
PathsIn(t) ==
    {t[i].step_name : i \in 1..Len(t)}
    \cap {"calculate_short_term_tax", "calculate_progressive_tax"}

\* C10: the rate step of a non-exempt frozen ledger takes the short-term flat
\* path exactly when holding_period_years < 2: there calculated_tax =
\* taxable_income x the flat rate of a matching row, progressive_deduction = 0
\* and surcharge_rate = 0 whatever house_count and region are (or no row
\* matches and it raises); from exactly 2 years on it takes the progressive
\* path; no run records both paths.
C10_RatePath ==
    [][(calc.pc = "tax" /\ calc'.pc # "tax") =>
          /\ IF holding_period_years(ledger[1])[1] < 2
             THEN \/ /\ calc'.pc = "raised"
                     /\ calc'.raised = "ValueError:no_short_term_rate"
                     /\ ~LookupsCovered(rules, ledger[1], calc.taxable_income)
                  \/ /\ calc'.pc = "local_tax"
                     /\ calc'.tax_result.path = "short_term"
                     /\ \E i \in 1..Len(rules.short_term_rates) :
                           /\ rules.short_term_rates[i].asset_type =
                                 ValueOr(ledger[1], "asset_type", "residential")
                           /\ calc'.tax_result.base_tax_rate = rules.short_term_rates[i].rate
                           /\ calc'.tax_result.calculated_tax =
                                 DecMulRate(calc.taxable_income,
                                            rules.short_term_rates[i].rate)
                     /\ calc'.tax_result.progressive_deduction = Zero
                     /\ calc'.tax_result.surcharge_rate = Rate(0)
                     /\ calc'.warnings = calc.warnings
                     /\ PathsIn(calc'.traces) = {"calculate_short_term_tax"}
             ELSE /\ calc'.pc = "local_tax"
                  /\ calc'.tax_result.path = "progressive"
                  /\ PathsIn(calc'.traces) = {"calculate_progressive_tax"}
          /\ Cardinality(PathsIn(calc'.traces)) <= 1]_vars

\* C10 witness: a short-term calculation for a two-house ledger in an adjusted
\* area: a positive tax at the flat rate with no surcharge
C10_Witness ==
    /\ calc.tax_result.path = "short_term"
    /\ calc.is_adjusted_area
    /\ ValueOr(ledger[1], "house_count", 1) >= 2
    /\ holding_period_years(ledger[1])[1] < 2
    /\ calc.tax_result.surcharge_rate = Rate(0)
    /\ calc.tax_result.calculated_tax.n > 0

-----------------------------------------------------------------------------
(* Claims about the rate step *)

\* The rate step ran down the progressive path in this step
ProgressiveStep ==
    calc.pc = "tax" /\ calc'.pc = "local_tax" /\ calc'.tax_result.path = "progressive"

\* The surcharge warnings among the warnings w
SurchargeWarnings(w) == {i \in 1..Len(w) : w[i] = "multi_house_surcharge"}

\* C11 (as claimed): on the progressive path calculated_tax = max(taxable_income
\* x (base_rate + surcharge_rate) - progressive_deduction, 0), the sum of the
\* two rates taken exactly, with (base_rate, progressive_deduction) a row of the
\* bracket table and surcharge_rate the multi-house rate; one surcharge warning
\* is appended if and only if surcharge_rate > 0.
C11_ProgressiveTax ==
    [][ProgressiveStep =>
          /\ \E i \in 1..Len(rules.progressive_tax_brackets) :
                /\ calc'.tax_result.base_tax_rate = rules.progressive_tax_brackets[i].rate
                /\ calc'.tax_result.progressive_deduction =
                      Dec(rules.progressive_tax_brackets[i].deduction)
          /\ calc'.tax_result.surcharge_rate =
                get_multi_house_surcharge(rules, ValueOr(ledger[1], "house_count", 1),
                                          calc.is_adjusted_area,
                                          holding_period_years(ledger[1])[1])
          /\ calc'.tax_result.calculated_tax =
                DecMax(DecSub(DecMulRate(calc.taxable_income,
                                         Rate(calc'.tax_result.base_tax_rate.pct
                                              + calc'.tax_result.surcharge_rate.pct)),
                              calc'.tax_result.progressive_deduction),
                       Zero)
          /\ IF calc'.tax_result.surcharge_rate.pct > 0
             THEN calc'.warnings = Append(calc.warnings, "multi_house_surcharge")
             ELSE calc'.warnings = calc.warnings]_vars

-----------------------------------------------------------------------------
(* Claims about the deduction chain *)

\* The run is on the non-exempt path: the exemption check recorded no_exemption
NonExempt == Len(calc.traces) >= 2 /\ calc.traces[2].applied_rule = "no_exemption"

\* The value of a cost slot, an absent one counted as 0
CostOrZero(l, n) == IF l[n] = None THEN 0 ELSE l[n][1].value

\* max(x, 0) on an amount
ClampAtZero(x) == IF x.n < 0 \/ (x.n = 0 /\ x.e < 0) THEN Zero ELSE x

-----------------------------------------------------------------------------
(* SpecRules: one RuleEngine, its queries called one at a time *)

\* The tables a RuleEngine under query is constructed with
QueryTables == RuleTables \cup {DraftRules} \cup ConditionTables

\* Arguments of the short-term lookup
AssetTypes == {"residential", "non_residential", "land"}
ShortTermYears == 0..3
ShortTermIncomes == {100000000}

\* Arguments of the bracket lookup: each finite threshold of the reference
\* table, one won below it and one won above it
BracketIncomes ==
    {0} \cup
    {ReferenceRules.progressive_tax_brackets[i].threshold[1] + d :
        i \in {j \in 1..Len(ReferenceRules.progressive_tax_brackets) :
                  ReferenceRules.progressive_tax_brackets[j].threshold # None},
        d \in {-1, 0, 1}}

\* Arguments of the deduction-rate and surcharge queries
DeductionYears == {2, 3, 4, 5, 10, 15}
ResidenceYears == {0, 2, 3, 10}
HouseCounts == 0..4
SurchargeYears == 0..3

ExemptionYears == 0..3

\* A frame standing at the rate step with the given taxable income
FrameAtTax(taxable_income) ==
    [NewFrame("tax", FALSE) EXCEPT !.taxable_income = Dec(taxable_income)]

InitRules ==
    /\ ledger = None
    /\ call = NoCall
    /\ ncalls = 0
    /\ fact = None
    /\ factCall = NoFactCall
    /\ rules \in QueryTables
    /\ calc = NoCalc
    /\ query = NoQuery
    /\ peer = NoCalc

\* rule_engine.get_short_term_rate(asset_type, holding_period_years)
GetShortTermRate ==
    \E asset_type \in AssetTypes, years \in ShortTermYears :
        /\ query' = [op |-> "get_short_term_rate", asset_type |-> asset_type,
                     years |-> years,
                     result |-> get_short_term_rate(rules, asset_type, years)]
        /\ UNCHANGED <<fact, factCall, ledger, call, ncalls, rules, calc, peer>>

\* calculator._calculate_short_term_tax(taxable_income, asset_type, holding_period)
ShortTermTax ==
    \E asset_type \in AssetTypes, years \in ShortTermYears,
       taxable_income \in ShortTermIncomes :
        /\ query' = [op |-> "calculate_short_term_tax", asset_type |-> asset_type,
                     years |-> years, taxable_income |-> taxable_income]
        /\ calc' = calculate_short_term_tax(rules, FrameAtTax(taxable_income),
                                            asset_type, years)
        /\ UNCHANGED <<fact, factCall, ledger, call, ncalls, rules, peer>>

\* rule_engine.calculate_progressive_tax(taxable_income)
CalculateProgressiveTax ==
    \E taxable_income \in BracketIncomes :
        /\ query' = [op |-> "calculate_progressive_tax",
                     taxable_income |-> taxable_income,
                     result |-> calculate_progressive_tax(rules, Dec(taxable_income))]
        /\ UNCHANGED <<fact, factCall, ledger, call, ncalls, rules, calc, peer>>

\* rule_engine.calculate_long_term_deduction_rate(holding_period_years,
\*     is_primary_residence, residence_period_years)
CalculateLongTermDeductionRate ==
    \E years \in DeductionYears, is_primary_residence \in BOOLEAN,
       residence_years \in ResidenceYears :
        /\ query' = [op |-> "calculate_long_term_deduction_rate", years |-> years,
                     is_primary_residence |-> is_primary_residence,
                     residence_years |-> residence_years,
                     result |-> calculate_long_term_deduction_rate(
                                    rules, years, is_primary_residence, residence_years)]
        /\ UNCHANGED <<fact, factCall, ledger, call, ncalls, rules, calc, peer>>

\* rule_engine.get_multi_house_surcharge(house_count, is_adjusted_area,
\*     holding_period_years)
GetMultiHouseSurcharge ==
    \E house_count \in HouseCounts, is_adjusted_area \in BOOLEAN,
       years \in SurchargeYears :
        /\ query' = [op |-> "get_multi_house_surcharge", house_count |-> house_count,
                     is_adjusted_area |-> is_adjusted_area, years |-> years,
                     result |-> get_multi_house_surcharge(rules, house_count,
                                                          is_adjusted_area, years)]
        /\ UNCHANGED <<fact, factCall, ledger, call, ncalls, rules, calc, peer>>

\* rule_engine.check_exemption_eligibility(is_primary_residence,
\*     residence_period_years, holding_period_years)
CheckExemptionEligibility ==
    \E is_primary_residence \in BOOLEAN, residence_years \in ResidenceYears,
       years \in ExemptionYears :
        /\ query' = [op |-> "check_exemption_eligibility",
                     is_primary_residence |-> is_primary_residence,
                     residence_years |-> residence_years, years |-> years,
                     result |-> check_exemption_eligibility(
                                    rules, is_primary_residence, residence_years, years)]
        /\ UNCHANGED <<fact, factCall, ledger, call, ncalls, rules, calc, peer>>

NextRules ==
    \/ GetShortTermRate
    \/ ShortTermTax
    \/ CalculateProgressiveTax
    \/ CalculateLongTermDeductionRate
    \/ GetMultiHouseSurcharge
    \/ CheckExemptionEligibility

SpecRules == InitRules /\ [][NextRules]_vars

-----------------------------------------------------------------------------
(* Claims about the RuleEngine's lookups *)

\* The rows of the short-term table with exactly this asset_type whose
\* [holding_period_min, holding_period_max) holds the years
MatchingRows(self, asset_type, years) ==
    {i \in 1..Len(self.short_term_rates) :
        /\ self.short_term_rates[i].asset_type = asset_type
        /\ self.short_term_rates[i].holding_period_min <= years
        /\ years < self.short_term_rates[i].holding_period_max}

\* Claim C13: get_short_term_rate returns no row when the holding period is two
\* years or more, and otherwise the row (the first one in table order) with
\* exactly the asset_type and holding_period_min <= years < holding_period_max,
\* or no row when there is none; a short-term calculation whose lookup returns
\* no row raises ValueError and produces no tax result, and one whose lookup
\* returns a row is taxed at that row's rate.
C13_ShortTermLookup ==
    /\ query.op = "get_short_term_rate" =>
          LET hits == MatchingRows(rules, query.asset_type, query.years)
          IN  IF query.years >= 2 \/ hits = {}
              THEN query.result = None
              ELSE /\ query.result # None
                   /\ \E i \in hits :
                         /\ \A j \in hits : i <= j
                         /\ query.result[1] = rules.short_term_rates[i]
    /\ query.op = "calculate_short_term_tax" =>
          LET hits == MatchingRows(rules, query.asset_type, query.years)
          IN  IF query.years >= 2 \/ hits = {}
              THEN /\ calc.pc = "raised"
                   /\ calc.raised = "ValueError:no_short_term_rate"
                   /\ calc.tax_result = NoTaxResult
                   /\ calc.traces = << >>
              ELSE /\ calc.raised = "none"
                   /\ calc.tax_result.path = "short_term"
                   /\ \E i \in hits :
                         /\ \A j \in hits : i <= j
                         /\ calc.tax_result.base_tax_rate = rules.short_term_rates[i].rate

\* A lookup at two years or more over a table that has a row covering those
\* years, and the calculation that follows it
C13_Witness ==
    /\ query.op = "calculate_short_term_tax"
    /\ query.years >= 2
    /\ MatchingRows(rules, query.asset_type, query.years) # {}
    /\ calc.raised = "ValueError:no_short_term_rate"


\* The bracket rows that cover the income: threshold None or >= income
CoveringBrackets(self, taxable_income) ==
    {i \in 1..Len(self.progressive_tax_brackets) :
        \/ self.progressive_tax_brackets[i].threshold = None
        \/ taxable_income <= self.progressive_tax_brackets[i].threshold[1]}

\* Claim C14: a bracket lookup for an income that no row of the table covers
\* (the empty table included) ends in an error; no rate is answered.
C14_UncoveredRaises ==
    (/\ query.op = "calculate_progressive_tax"
     /\ CoveringBrackets(rules, query.taxable_income) = {})
        => query.result.raised # "none"

\* Ascending: the finite thresholds grow along the table and a None threshold
\* comes last
Ascending(brackets) ==
    \A i, j \in 1..Len(brackets) :
        i < j => /\ brackets[i].threshold # None
                 /\ (brackets[j].threshold # None
                        => brackets[i].threshold[1] < brackets[j].threshold[1])

\* Claim C15: the bracket lookup answers with the first row in table order whose
\* threshold is None or >= the income.  In an ascending table an income equal
\* to a row's threshold gets that row, an income one won above it gets the next
\* row, and a row with threshold None gets every income above the last finite
\* threshold.
C15_FirstCoveringBracket ==
    query.op = "calculate_progressive_tax" =>
        LET brackets == rules.progressive_tax_brackets
            income == query.taxable_income
            hits == CoveringBrackets(rules, income)
            Answered(i) == /\ query.result.raised = "none"
                           /\ query.result.rate = brackets[i].rate
                           /\ query.result.deduction = Dec(brackets[i].deduction)
        IN  /\ hits # {} => \E i \in hits : (\A j \in hits : i <= j) /\ Answered(i)
            /\ Ascending(brackets) =>
                  \A i \in 1..Len(brackets) :
                      /\ (brackets[i].threshold # None
                            /\ income = brackets[i].threshold[1]) => Answered(i)
                      /\ (i > 1 /\ income = brackets[i - 1].threshold[1] + 1)
                            => Answered(i)
                      /\ (i > 1 /\ brackets[i].threshold = None
                            /\ income > brackets[i - 1].threshold[1]) => Answered(i)

\* One won above the first threshold of the reference table: the second row
C15_Witness ==
    /\ query.op = "calculate_progressive_tax"
    /\ rules = ReferenceRules
    /\ query.taxable_income = rules.progressive_tax_brackets[1].threshold[1] + 1
    /\ query.result.rate = rules.progressive_tax_brackets[2].rate
    /\ query.result.rate # rules.progressive_tax_brackets[1].rate


\* The rate, in percent, of the row with the highest years threshold that the
\* period reaches; 0 when it reaches none
HighestRowPct(rows, period) ==
    LET hits == {i \in 1..Len(rows) : rows[i].years <= period}
        top == CHOOSE i \in hits : \A j \in hits : rows[j].years <= rows[i].years
    IN  IF hits = {} THEN 0 ELSE rows[top].rate.pct

MinPct(a, b) == IF a <= b THEN a ELSE b

\* Claim C16: the long-term deduction rate is 0 below three years of holding; on
\* the one-house track it is min(H + R, max_rate), H and R the rates of the rows
\* with the highest years threshold reached in base_rates and residence_rates;
\* on the general track it is min(G, max_rate); in every table, whatever the
\* order of its rows.
C16_DeductionRate ==
    query.op = "calculate_long_term_deduction_rate" =>
        LET one_house == rules.one_house_owner
            general == rules.general
            expected ==
                IF query.years < 3 THEN 0
                ELSE IF query.is_primary_residence /\ query.residence_years >= 2
                THEN MinPct(HighestRowPct(one_house.base_rates, query.years)
                              + HighestRowPct(one_house.residence_rates,
                                              query.residence_years),
                            one_house.max_rate.pct)
                ELSE MinPct(HighestRowPct(general.rates, query.years),
                            general.max_rate.pct)
        IN  query.result = Rate(expected)

\* Claim C17: get_multi_house_surcharge is 0 when the region is not adjusted,
\* the holding period is under two years or house_count is under 2; otherwise
\* it is the two_houses rate at house_count = 2 and the three_or_more_houses
\* rate at house_count >= 3.
C17_Surcharge ==
    query.op = "get_multi_house_surcharge" =>
        query.result =
            IF ~query.is_adjusted_area \/ query.years < 2 \/ query.house_count < 2
            THEN Rate(0)
            ELSE IF query.house_count = 2 THEN rules.two_houses
            ELSE rules.three_or_more_houses

\* Three houses in an adjusted area held under two years: no surcharge
C17_Witness ==
    /\ query.op = "get_multi_house_surcharge"
    /\ query.is_adjusted_area
    /\ query.house_count >= 3
    /\ query.years < 2
    /\ query.result = Rate(0)
    /\ rules.three_or_more_houses # Rate(0)


\* The facts check_exemption_eligibility evaluates the conditions against
EligibilityFacts ==
    [is_primary_residence |-> IF query.is_primary_residence THEN 1 ELSE 0,
     residence_period_years |-> query.residence_years,
     holding_period_years |-> query.years]

\* The condition names one of the three facts and is true under its operator
ConditionHolds(condition) ==
    /\ condition.field \in DOMAIN EligibilityFacts
    /\ evaluate_condition(EligibilityFacts[condition.field], condition.operator,
                          condition.value)

-----------------------------------------------------------------------------
(* Claims about the traces and the invocations of calculate() *)

\* The step names calculate() records on the non-exempt path, the rate step
\* under either of its two names
StepOrder ==
    << {"calculate_transfer_income"}, {"check_exemption"},
       {"calculate_long_term_deduction"}, {"calculate_transfer_income_amount"},
       {"apply_basic_deduction"},
       {"calculate_short_term_tax", "calculate_progressive_tax"},
       {"calculate_local_tax"} >>

\* The traces follow the step order from the first step on, one trace a step
InStepOrder(traces) ==
    /\ Len(traces) <= Len(StepOrder)
    /\ \A i \in 1..Len(traces) : traces[i].step_name \in StepOrder[i]

\* calculate() ran through its last step on the non-exempt path
RanThrough == NonExempt /\ Terminated /\ calc.tax_result.path # "none"

\* Claim C19: an invocation that ran through the non-exempt path holds exactly
\* one trace per step, in step order and none twice: transfer income, exemption
\* check, long-term deduction, transfer income amount, basic deduction, rate
\* application, local tax and, as the eighth, final tax.
C19_TraceOrder ==
    RanThrough =>
        /\ Len(calc.traces) = Len(StepOrder) + 1
        /\ InStepOrder(SubSeq(calc.traces, 1, Len(StepOrder)))
        /\ calc.traces[Len(calc.traces)].output_value = calc.final_tax


-----------------------------------------------------------------------------
(* SpecShared: one frozen ledger, one calculator, two callers *)

\* The ledgers the callers share
SharedCases ==
    {c \in CalcCases :
        /\ c.days \in {729, 1825}
        /\ c.costs = {}
        /\ c.residence \in {[is_primary |-> None, years |-> None],
                            [is_primary |-> Some(TRUE), years |-> Some(3)]}
        /\ c.profile \in {[asset_type |-> Some("residential"), house_count |-> Some(2)],
                          [asset_type |-> Some("land"), house_count |-> Some(2)]}}

SharedCreateInputs ==
    {[n \in CaseSlots(c) |-> Given(Confirmed(CaseValue(c, n)))] : c \in SharedCases}

\* The step of calculate() a frame stands at
Step(self, fact_ledger, f) ==
    CASE f.pc = "transfer_income" -> calculate_transfer_income(fact_ledger, f)
      [] f.pc = "check_exemption" -> check_exemption(self, fact_ledger, f)
      [] f.pc = "exempt_result" -> create_exempt_result(self, f)
      [] f.pc = "long_term_deduction" ->
            calculate_long_term_deduction(self, fact_ledger, f)
      [] f.pc = "transfer_income_amount" -> calculate_transfer_income_amount(f)
      [] f.pc = "basic_deduction" -> apply_basic_deduction(self, f)
      [] f.pc = "tax" -> calculate_tax(self, fact_ledger, f)
      [] f.pc = "local_tax" -> calculate_local_tax(self, f)
      [] f.pc = "result" -> create_result(self, f)

\* calculate() run from a frame to its end, nothing else running
RECURSIVE Run(_, _, _)
Run(self, fact_ledger, f) ==
    IF f.pc \in {"returned", "raised"} THEN f
    ELSE Run(self, fact_ledger, Step(self, fact_ledger, f))

\* A single isolated call calculate(fact_ledger, is_adjusted_area)
IsolatedCall(self, fact_ledger, is_adjusted_area) ==
    Run(self, fact_ledger, Start(fact_ledger, is_adjusted_area))

Frozen == ledger # None /\ Truthy(ledger[1].is_frozen)

\* The first caller calls calculate() again after its last call ended
CalculateAgain(is_adjusted_area) ==
    /\ Frozen
    /\ calc.pc \in {"returned", "raised"}
    /\ calc' = Start(ledger[1], is_adjusted_area)
    /\ UNCHANGED <<ledger, call, ncalls, fact, factCall, rules, query, peer>>

\* The second caller calls calculate(), for the first time or again
PeerCalculate(is_adjusted_area) ==
    /\ Frozen
    /\ peer.pc \in {"idle", "returned", "raised"}
    /\ peer' = Start(ledger[1], is_adjusted_area)
    /\ UNCHANGED <<ledger, call, ncalls, fact, factCall, rules, query, calc>>

\* The second caller's invocation takes its next step
PeerStep ==
    /\ peer.pc \notin {"idle", "returned", "raised"}
    /\ peer' = Step(rules, ledger[1], peer)
    /\ UNCHANGED <<ledger, call, ncalls, fact, factCall, rules, query, calc>>

InitShared == InitCalc

\* The ledger is created and frozen, then shared: each caller invokes
\* calculate() as often as it likes, the steps of the two interleaving
NextShared ==
    \/ \E facts \in SharedCreateInputs : Create(facts, "kim")
    \/ (~Frozen /\ Freeze)
    \/ \E is_adjusted_area \in BOOLEAN : (Frozen /\ Calculate(is_adjusted_area))
    \/ \E is_adjusted_area \in BOOLEAN : CalculateAgain(is_adjusted_area)
    \/ CalculateTransferIncome
    \/ CheckExemption
    \/ CreateExemptResult
    \/ CalculateLongTermDeduction
    \/ CalculateTransferIncomeAmount
    \/ ApplyBasicDeduction
    \/ CalculateTax
    \/ CalculateLocalTax
    \/ CreateResult
    \/ \E is_adjusted_area \in BOOLEAN : PeerCalculate(is_adjusted_area)
    \/ PeerStep

SpecShared == InitShared /\ [][NextShared]_vars

\* The exceptions a rule table that covers no row for the ledger ends a call with
RuleTableErrors == {"ValueError:no_short_term_rate", "ValueError:operator", "IndexError"}

\* An invocation that ended gave what a single isolated call on the ledger
\* gives: it returned, with that call's result, warnings and traces
AsIsolated(f) ==
    LET isolated == IsolatedCall(rules, ledger[1], f.is_adjusted_area)
    IN  (f.pc \in {"returned", "raised"} /\ isolated.raised \notin RuleTableErrors)
            => /\ f.pc = "returned"
               /\ f.result # None
               /\ f.result = isolated.result
               /\ f.warnings = isolated.warnings
               /\ f.traces = isolated.traces

\* Claim C20: on one frozen ledger every invocation of calculate(), whether it
\* follows another or interleaves with one, returns the monetary fields, the
\* warnings and the traces that a single isolated call with the same
\* is_adjusted_area returns; none sees the traces or warnings of another.
C20_Repeatable == Frozen => AsIsolated(calc) /\ AsIsolated(peer)


-----------------------------------------------------------------------------
(* TaxCalculator.estimate_tax and SpecEstimate *)

\* kwargs.get(key, default)
KwargOr(kwargs, key, default) ==
    IF key \in DOMAIN kwargs THEN kwargs[key] ELSE default

\* estimate_tax(disposal_price, acquisition_price, holding_period_years,
\*     is_adjusted_area, asset_type, **kwargs): the estimate, or the exception
\* (rate_info['rate'] on a lookup that gave None is a TypeError)
estimate_tax(self, disposal_price, acquisition_price, years, is_adjusted_area, asset_type, kwargs) ==
    LET transfer_income ==
            Dec(disposal_price - acquisition_price
                - KwargOr(kwargs, "acquisition_cost", 0)
                - KwargOr(kwargs, "disposal_cost", 0)
                - KwargOr(kwargs, "improvement_cost", 0))
        is_primary == KwargOr(kwargs, "is_primary_residence", FALSE)
        residence_years == KwargOr(kwargs, "residence_period_years", 0)
        deduction_rate ==
            calculate_long_term_deduction_rate(self, years, is_primary, residence_years)
        deduction == DecMulRate(transfer_income, deduction_rate)
        transfer_income_amount == DecMax(DecSub(transfer_income, deduction), Zero)
        basic_deduction == get_basic_deduction(self)
        taxable_income == DecMax(DecSub(transfer_income_amount, basic_deduction), Zero)
        rate_info == get_short_term_rate(self, asset_type, years)
        bracket == calculate_progressive_tax(self, taxable_income)
        house_count == KwargOr(kwargs, "house_count", 1)
        surcharge_rate ==
            get_multi_house_surcharge(self, house_count, is_adjusted_area, years)
        total_rate == FloatAdd(bracket.rate, surcharge_rate)
        estimated_tax ==
            IF years < 2 THEN DecMulRate(taxable_income, rate_info[1].rate)
            ELSE DecMax(DecSub(DecMulRate(taxable_income, total_rate),
                               bracket.deduction), Zero)
        local_tax == DecMulRate(estimated_tax, get_local_tax_rate(self))
    IN  IF years < 2 /\ rate_info = None
        THEN [raised |-> "TypeError:none_not_subscriptable", value |-> Zero]
        ELSE IF years >= 2 /\ bracket.raised # "none"
        THEN [raised |-> bracket.raised, value |-> Zero]
        ELSE [raised |-> "none", value |-> DecAdd(estimated_tax, local_tax)]

\* The keyword arguments that carry the optional values of a ledger
EstimateKeywords ==
    {"acquisition_cost", "disposal_cost", "improvement_cost", "house_count",
     "is_primary_residence", "residence_period_years"}

KwargsOf(fact_ledger) ==
    [n \in {k \in EstimateKeywords : fact_ledger[k] # None} |-> fact_ledger[n][1].value]

\* estimate_tax called with the values a ledger holds
EstimateFor(self, fact_ledger, is_adjusted_area) ==
    estimate_tax(self, fact_ledger.disposal_price[1].value,
                 fact_ledger.acquisition_price[1].value,
                 holding_period_years(fact_ledger)[1], is_adjusted_area,
                 ValueOr(fact_ledger, "asset_type", "residential"),
                 KwargsOf(fact_ledger))

\* The ledgers estimate and calculation are compared on
EstimateCases ==
    {c \in CalcCases :
        /\ c.prices \in {<<500000000, 800000000>>, <<800000000, 1500000000>>,
                         <<800000000, 800000000>>}
        /\ c.days \in {200, 729, 730, 1825, 3650}
        /\ c.costs # {"acquisition_cost"}
        /\ c.profile.house_count # Some(1)
        /\ c.profile.asset_type # Some("non_residential")}

EstimateCreateInputs ==
    {[n \in CaseSlots(c) |-> Given(Confirmed(CaseValue(c, n)))] : c \in EstimateCases}

\* calculator.estimate_tax(...) with the values of the frozen ledger
EstimateTax(is_adjusted_area) ==
    /\ Frozen
    /\ query' = [op |-> "estimate_tax", is_adjusted_area |-> is_adjusted_area,
                 result |-> EstimateFor(rules, ledger[1], is_adjusted_area)]
    /\ UNCHANGED <<ledger, call, ncalls, fact, factCall, rules, calc, peer>>

InitEstimate == InitCalc

\* The caller creates and freezes the ledger, then calls calculate() and
\* estimate_tax() in either order
NextEstimate ==
    \/ \E facts \in EstimateCreateInputs : Create(facts, "kim")
    \/ (~Frozen /\ Freeze)
    \/ \E is_adjusted_area \in BOOLEAN : (Frozen /\ Calculate(is_adjusted_area))
    \/ CalculateTransferIncome
    \/ CheckExemption
    \/ CreateExemptResult
    \/ CalculateLongTermDeduction
    \/ CalculateTransferIncomeAmount
    \/ ApplyBasicDeduction
    \/ CalculateTax
    \/ CalculateLocalTax
    \/ CreateResult
    \/ \E is_adjusted_area \in BOOLEAN : EstimateTax(is_adjusted_area)

SpecEstimate == InitEstimate /\ [][NextEstimate]_vars

\* calculate() and estimate_tax() were both called on the ledger's values with
\* the same is_adjusted_area, calculate() has ended, and the ledger is not
\* exemption-eligible
Compared ==
    /\ Frozen
    /\ query.op = "estimate_tax"
    /\ Terminated
    /\ query.is_adjusted_area = calc.is_adjusted_area
    /\ ~Eligible(rules, ledger[1])

\* Claim C21: for a ledger that is not exemption-eligible, estimate_tax on the
\* ledger's values equals the final_tax of the result calculate() returns, on
\* the short-term and on the progressive path, and estimate_tax fails exactly
\* when calculate() fails.
C21_EstimateAgrees ==
    Compared =>
        /\ query.result.raised # "none" <=> calc.pc = "raised"
        /\ query.result.raised = "none" =>
              /\ calc.result # None
              /\ calc.result[1].final_tax = query.result.value


-----------------------------------------------------------------------------
(* SpecRevise: the Facts of a ledger revised and confirmed before freeze *)

\* The ledger of the workflow: the four required Facts, confirmed
ReviseCreateInput ==
    [n \in {"acquisition_date", "acquisition_price", "disposal_date", "disposal_price"} |->
        IF n = "acquisition_date" THEN Given(Confirmed(10))
        ELSE IF n = "disposal_date" THEN Given(Confirmed(20))
        ELSE Given(Confirmed(5))]

\* The slots the workflow revises, and the new values it gives them
ReviseSlots == {"acquisition_date", "acquisition_price", "disposal_date", "disposal_price"}
ReviseValues(n) ==
    IF n \in {"acquisition_date", "disposal_date"} THEN {15, 20} ELSE {5, 8}

\* A call of a Fact method on the Fact in slot `name`: the method, its
\* new_value argument and the receiver as it was before the call
ReviseRecord(op, name, value, receiver) ==
    [op |-> op, name |-> name, value |-> value, receiver |-> receiver,
     confidence |-> 0, is_confirmed |-> FALSE, raised |-> "none"]

\* fact = ledger.<name>.update_value(new_value, updated_by): the ledger and the
\* Fact in its slot are not assigned to
SlotUpdateValue(name, new_value, updated_by) ==
    /\ ledger # None
    /\ ledger[1][name] # None
    /\ fact' = update_value(ledger[1][name][1], new_value, updated_by).obj
    /\ factCall' = ReviseRecord("update_value", name, new_value, ledger[1][name][1])
    /\ UNCHANGED <<ledger, call, ncalls, rules, calc, query, peer>>

\* fact = ledger.<name>.confirm(confirmed_by)
SlotConfirm(name, confirmed_by) ==
    /\ ledger # None
    /\ ledger[1][name] # None
    /\ fact' = confirm(ledger[1][name][1], confirmed_by).obj
    /\ factCall' = ReviseRecord("confirm", name, ledger[1][name][1].value,
                                ledger[1][name][1])
    /\ UNCHANGED <<ledger, call, ncalls, rules, calc, query, peer>>

\* ledger.update_field(name, fact) with the Fact the last method call returned
PutFact ==
    /\ ledger # None
    /\ fact # None
    /\ factCall.op \in {"update_value", "confirm"}
    /\ ledger' = Some(UpdateEffect(ledger[1], factCall.name, fact[1]))
    /\ call' = CallRecord("update_field", <<>>, "", factCall.name, fact,
                          UpdateOutcome(ledger[1], factCall.name))
    /\ UNCHANGED <<ncalls, fact, factCall, rules, calc, query, peer>>

\* ledger.freeze(), as often as the caller tries
FreezeAttempt ==
    /\ ledger # None
    /\ ledger' = Some(FreezeEffect(ledger[1]))
    /\ call' = CallRecord("freeze", <<>>, "", "", None, FreezeOutcome(ledger[1]))
    /\ UNCHANGED <<ncalls, fact, factCall, rules, calc, query, peer>>

NextRevise ==
    \/ Create(ReviseCreateInput, "kim")
    \/ \E name \in ReviseSlots : \E v \in ReviseValues(name) :
          SlotUpdateValue(name, v, "kim")
    \/ \E name \in ReviseSlots : SlotConfirm(name, "kim")
    \/ PutFact
    \/ FreezeAttempt

SpecRevise == Init /\ [][NextRevise]_vars

\* A Fact method was called in this step
FactMethodStep(op) ==
    /\ factCall'.op = op
    /\ <<fact, factCall>>' # <<fact, factCall>>

\* freeze() was called in this step on a ledger with an unconfirmed required Fact
FreezeOnUnconfirmed ==
    /\ call'.op = "freeze"
    /\ <<ledger, call>>' # <<ledger, call>>
    /\ \E i \in 1..Len(required_fields) :
          /\ ledger[1][required_fields[i]] # None
          /\ ~ledger[1][required_fields[i]][1].is_confirmed

\* Claim C22: confirm() and update_value() leave the Fact they are called on
\* (and the ledger that holds it) as it was; confirm returns a Fact with the
\* same value, is_confirmed = true and confidence 1.0; update_value returns a
\* Fact with the new value and is_confirmed = false also for a confirmed
\* receiver; freeze() on a ledger whose required slot holds such an
\* unconfirmed Fact raises and does not freeze.
C22_PureFactMethods ==
    [][ /\ (FactMethodStep("confirm") \/ FactMethodStep("update_value"))
            => /\ ledger' = ledger
               /\ ledger'[1][factCall'.name] = Some(factCall'.receiver)
               /\ fact' # None
        /\ FactMethodStep("confirm")
            => /\ fact'[1].value = factCall'.receiver.value
               /\ fact'[1].is_confirmed
               /\ fact'[1].confidence = FullConfidence
        /\ FactMethodStep("update_value")
            => /\ fact'[1].value = factCall'.value
               /\ ~fact'[1].is_confirmed
        /\ FreezeOnUnconfirmed
            => /\ call'.outcome # "ok"
               /\ ~Truthy(ledger'[1].is_frozen) ]_vars

\* freeze() refused on a ledger whose disposal_price, confirmed at creation,
\* was replaced by the unconfirmed result of update_value
C22_Witness ==
    /\ ledger # None
    /\ call.op = "freeze"
    /\ call.outcome # "ok"
    /\ ~Truthy(ledger[1].is_frozen)
    /\ ledger[1].disposal_price[1].value = 8
    /\ ~ledger[1].disposal_price[1].is_confirmed


-----------------------------------------------------------------------------
(* SpecVersion: create, update_field, freeze and create_new_version *)

\* The mappings the ledger is created with
VersionCreateInputs ==
    { <<>>,
      [n \in {"acquisition_date", "acquisition_price", "disposal_date", "disposal_price"} |->
          IF n = "acquisition_date" THEN Given(Confirmed(10))
          ELSE IF n = "disposal_date" THEN Given(Confirmed(20))
          ELSE Given(Confirmed(5))],
      [n \in {"acquisition_date", "acquisition_price", "disposal_date", "disposal_price"} |->
          IF n = "acquisition_date" THEN Given(Confirmed(10))
          ELSE IF n = "disposal_date" THEN Given(Confirmed(20))
          ELSE IF n = "disposal_price" THEN Bare(5)
          ELSE Given(Confirmed(5))] }

\* The names and Facts update_field is called with
VersionUpdateNames == {"disposal_price", "is_frozen", "version", "no_such_field"}
VersionUpdateFacts == {Confirmed(5), Unconfirmed(5), Confirmed(-1)}

\* The keyword arguments create_new_version is called with: none, a Fact for
\* a slot, a metadata field, both, and a name that is no field
VersionChanges ==
    { <<>>,
      [n \in {"disposal_price"} |-> Confirmed(8)],
      [n \in {"disposal_price"} |-> Unconfirmed(-1)],
      [n \in {"is_frozen"} |-> PyBool(TRUE)],
      [n \in {"disposal_price", "is_frozen"} |->
          IF n = "is_frozen" THEN PyBool(TRUE) ELSE Unconfirmed(-1)],
      [n \in {"no_such_field"} |-> Confirmed(8)] }

\* A create_new_version call: its number among the calls made, its arguments,
\* the receiver as it was before the call, the exception and the ledger returned
VersionRecord(seq, changes, source, r) ==
    [op |-> "create_new_version", seq |-> seq, changes |-> changes,
     source |-> source, raised |-> r.raised, result |-> r.obj]

\* new = ledger.create_new_version(**changes): the receiver is not assigned to
CreateNewVersion(changes) ==
    /\ ledger # None
    /\ ncalls < MaxCalls
    /\ query' = VersionRecord(ncalls + 1, changes, ledger[1],
                              create_new_version(ledger[1], changes))
    /\ ncalls' = ncalls + 1
    /\ UNCHANGED <<ledger, call, fact, factCall, rules, calc, peer>>

\* ledger = new: the caller goes on with the version it was given
AdoptVersion ==
    /\ query.op = "create_new_version"
    /\ query.result # None
    /\ ledger' = query.result
    /\ query' = NoQuery
    /\ UNCHANGED <<call, ncalls, fact, factCall, rules, calc, peer>>

NextVersion ==
    \/ \E facts \in VersionCreateInputs : Create(facts, "kim")
    \/ \E n \in VersionUpdateNames, f \in VersionUpdateFacts : UpdateField(n, f)
    \/ Freeze
    \/ \E changes \in VersionChanges : CreateNewVersion(changes)
    \/ AdoptVersion

SpecVersion == Init /\ [][NextVersion]_vars

\* create_new_version was called in this step with changes to Fact slots only
VersionStep ==
    /\ query'.op = "create_new_version"
    /\ query' # query
    /\ DOMAIN query'.changes \subseteq FactSlots

\* Claim C23: create_new_version(**changes) on an unfrozen ledger returns a new
\* ledger whose version is the source's version + 1 and whose slots are the
\* source's slots with the changes applied, and leaves the source's slots,
\* version and is_frozen as they were; on a frozen ledger it raises ValueError
\* and returns no ledger.
C23_NewVersion ==
    [][VersionStep =>
          /\ ledger' = ledger
          /\ query'.source = ledger[1]
          /\ IF Truthy(ledger[1].is_frozen)
             THEN query'.raised = "ValueError:frozen" /\ query'.result = None
             ELSE /\ query'.raised = "none"
                  /\ query'.result # None
                  /\ query'.result[1].version.obj = None
                  /\ ledger[1].version.obj = None
                  /\ query'.result[1].version.n = ledger[1].version.n + 1
                  /\ \A n \in FactSlots :
                        query'.result[1][n] =
                            IF n \in DOMAIN query'.changes
                            THEN Some(query'.changes[n]) ELSE ledger[1][n] ]_vars


-----------------------------------------------------------------------------
(* SpecConstruct: a FactLedger built with the dataclass constructor *)

\* The slots _validate() looks at that the caller passes to the constructor
ConstructSlots ==
    {"acquisition_date", "acquisition_price", "disposal_date", "disposal_price",
     "acquisition_cost", "residence_period_years"}

\* The keyword arguments of FactLedger(...): a confirmed Fact for each slot,
\* dates in either order and amounts of either sign
ConstructInputs ==
    {[n \in ConstructSlots |-> Confirmed(v[n])] :
        v \in {w \in [ConstructSlots -> DateValues \cup MoneyValues \cup PeriodValues] :
                  \A n \in ConstructSlots : w[n] \in SlotValues(n)}}

\* ledger = FactLedger(**kwargs): the __init__ the dataclass decorator
\* generates assigns the fields; the class defines no __post_init__
ConstructDirect(kwargs) ==
    /\ ledger = None
    /\ ledger' = Some(NewLedger(kwargs, "system"))
    /\ call' = CallRecord("construct", kwargs, "system", "", None, "ok")
    /\ UNCHANGED <<ncalls, fact, factCall, rules, calc, query, peer>>

NextConstruct ==
    \/ \E kwargs \in ConstructInputs : ConstructDirect(kwargs)
    \/ FreezeAttempt

SpecConstruct == Init /\ [][NextConstruct]_vars

\* The ledger breaks a structural rule of _validate(): disposal before
\* acquisition, or a negative price, cost or residence period
StructurallyInvalid(l) == Validate(l) # "ok"

\* Claim C24: a structurally invalid FactLedger (disposal_date before
\* acquisition_date, a negative price, cost or residence period) raises a
\* validation error when it is constructed directly with such values and when
\* freeze() is called on it; it is never accepted (no ledger is constructed,
\* no ledger is frozen) and its values are never clamped.
C24_InvalidRejected ==
    [][ /\ (call'.op = "construct" /\ ledger = None /\ ledger' # None)
            => ~StructurallyInvalid(ledger'[1])
        /\ (call'.op = "freeze" /\ ledger # None /\ StructurallyInvalid(ledger[1]))
            => /\ call'.outcome \in ValueErrors
               /\ ledger' = ledger ]_vars


\* Claim C25: in every state reachable through FactLedger.create, update_field,
\* freeze and create_new_version, a ledger whose is_frozen is truthy holds all
\* four required Facts, confirmed, with disposal_date >= acquisition_date and
\* no negative amount (only a successful freeze() makes a ledger frozen).
C25_FrozenIsValidated ==
    (ledger # None /\ Truthy(ledger[1].is_frozen)) => FreezeConditions(ledger[1])


\* The rejections of a name by update_field: AttributeError, from the hasattr
\* test or from setattr on a property without a setter
AttributeErrors == {"AttributeError:unknown_field", "AttributeError:no_setter"}

\* update_field was called in this step on an unfrozen ledger with a name
\* that is no Fact slot
NonSlotUpdate ==
    /\ call'.op = "update_field"
    /\ <<ledger, call, ncalls>>' # <<ledger, call, ncalls>>
    /\ ~Truthy(ledger[1].is_frozen)
    /\ call'.name \notin FactSlots

\* Claim C26: update_field accepts only the names of the ledger's Fact slots:
\* called with the name of ledger metadata (is_frozen, version, ...), of a
\* derived property (capital_gain, ...) or with any other name, it raises
\* AttributeError and leaves the ledger unchanged.
C26_OnlyFactSlots ==
    [][NonSlotUpdate =>
          /\ call'.outcome \in AttributeErrors
          /\ ledger' = ledger ]_vars


\* freeze() was called in this step and raised
FreezeRaised ==
    /\ call'.op = "freeze"
    /\ ncalls' = ncalls + 1
    /\ call'.outcome # "ok"

\* The ledgers one update_field of a Fact slot makes of ledger l, those that
\* meet the conditions of freeze
Corrections(l) ==
    {l2 \in UNION {{UpdateEffect(l, n, f) : f \in FactsFor(n)} : n \in RequiredSlots} :
        FreezeConditions(l2)}

\* Claim C27: a freeze() call that raises leaves the ledger exactly as it was
\* before the call (every slot holds the same Fact; is_frozen of an unfrozen
\* ledger is still false), so that update_field can still correct the ledger
\* and freeze() on the corrected ledger succeeds.
C27_FailedFreezeKeepsLedger ==
    [][FreezeRaised =>
          /\ ledger' = ledger
          /\ ~Truthy(ledger[1].is_frozen) =>
                /\ ~Truthy(ledger'[1].is_frozen)
                /\ \A n \in FactSlots :
                      UpdateOutcome(ledger'[1], n) = "ok"
                /\ \A l2 \in Corrections(ledger'[1]) :
                      /\ FreezeOutcome(l2) = "ok"
                      /\ IsTrue(FreezeEffect(l2).is_frozen) ]_vars

\* freeze() raised on a ledger whose disposal_price was created from a bare
\* value; the ledger is unfrozen and one update_field corrects it
C27_Witness ==
    /\ ledger # None
    /\ call.op = "freeze"
    /\ call.outcome = "ValueError:not_confirmed"
    /\ ~Truthy(ledger[1].is_frozen)
    /\ ledger[1].disposal_price # None
    /\ ~ledger[1].disposal_price[1].is_confirmed
    /\ Corrections(ledger[1]) # {}


-----------------------------------------------------------------------------
(* SpecRace: update_field and freeze() on one ledger, not serialized *)

\* The ledgers the producers share: the four required Facts confirmed, or
\* disposal_price still the unconfirmed wrap of a bare value
RaceCreateInputs ==
    { [n \in {"acquisition_date", "acquisition_price", "disposal_date", "disposal_price"} |->
          IF n = "acquisition_date" THEN Given(Confirmed(10))
          ELSE IF n = "disposal_date" THEN Given(Confirmed(20))
          ELSE Given(Confirmed(5))],
      [n \in {"acquisition_date", "acquisition_price", "disposal_date", "disposal_price"} |->
          IF n = "acquisition_date" THEN Given(Confirmed(10))
          ELSE IF n = "disposal_date" THEN Given(Confirmed(20))
          ELSE IF n = "disposal_price" THEN Bare(5)
          ELSE Given(Confirmed(5))] }

\* The slots the racing update_field writes: the first and the last of
\* required_fields
RaceUpdateNames == {"acquisition_date", "disposal_price"}

\* The frame of a freeze() invocation: the statement it is at, the index of
\* the required_fields loop, and the exception it ended with
FreezeFrame(pc, i, raised) ==
    [op |-> "freeze", pc |-> pc, i |-> i, raised |-> raised]

\* The frame of an update_field(field_name, fact) invocation
UpdateFrame(pc, field_name, f, raised) ==
    [op |-> "update_field", pc |-> pc, field_name |-> field_name, fact |-> f,
     raised |-> raised]

\* freeze(): one iteration of the loop over required_fields
RequiredAt(self, i) ==
    IF self[required_fields[i]] = None THEN "ValueError:required_not_set"
    ELSE IF ~self[required_fields[i]][1].is_confirmed THEN "ValueError:not_confirmed"
    ELSE "ok"

\* One producer calls ledger.freeze()
BeginFreeze ==
    /\ ledger # None
    /\ query = NoQuery
    /\ query' = FreezeFrame("is_frozen", 0, "none")
    /\ UNCHANGED <<fact, factCall, ledger, call, ncalls, rules, calc, peer>>

\* freeze(): if self.is_frozen: raise
FreezeTestFrozen ==
    /\ query.op = "freeze" /\ query.pc = "is_frozen"
    /\ query' = IF Truthy(ledger[1].is_frozen)
                THEN FreezeFrame("done", 0, "ValueError:already_frozen")
                ELSE FreezeFrame("required", 1, "none")
    /\ UNCHANGED <<fact, factCall, ledger, call, ncalls, rules, calc, peer>>

\* freeze(): fact = getattr(self, field_name) and the two tests on it
FreezeTestRequired ==
    /\ query.op = "freeze" /\ query.pc = "required"
    /\ query' = IF RequiredAt(ledger[1], query.i) # "ok"
                THEN FreezeFrame("done", query.i, RequiredAt(ledger[1], query.i))
                ELSE IF query.i < Len(required_fields)
                THEN FreezeFrame("required", query.i + 1, "none")
                ELSE FreezeFrame("validate", 0, "none")
    /\ UNCHANGED <<fact, factCall, ledger, call, ncalls, rules, calc, peer>>

\* freeze(): self._validate()
FreezeValidate ==
    /\ query.op = "freeze" /\ query.pc = "validate"
    /\ query' = IF Validate(ledger[1]) # "ok"
                THEN FreezeFrame("done", 0, Validate(ledger[1]))
                ELSE FreezeFrame("setattr", 0, "none")
    /\ UNCHANGED <<fact, factCall, ledger, call, ncalls, rules, calc, peer>>

\* freeze(): object.__setattr__(self, 'is_frozen', True); return self
FreezeSetFrozen ==
    /\ query.op = "freeze" /\ query.pc = "setattr"
    /\ ledger' = Some([ledger[1] EXCEPT !.is_frozen = PyBool(TRUE)])
    /\ query' = FreezeFrame("done", 0, "none")
    /\ UNCHANGED <<fact, factCall, call, ncalls, rules, calc, peer>>

\* Another producer calls ledger.update_field(field_name, f)
BeginUpdate(field_name, f) ==
    /\ ledger # None
    /\ peer = NoCalc
    /\ peer' = UpdateFrame("is_frozen", field_name, f, "none")
    /\ UNCHANGED <<fact, factCall, ledger, call, ncalls, rules, calc, query>>

\* update_field(): if self.is_frozen: raise
UpdateTestFrozen ==
    /\ peer # NoCalc /\ peer.pc = "is_frozen"
    /\ peer' = IF Truthy(ledger[1].is_frozen)
               THEN UpdateFrame("done", peer.field_name, peer.fact, "ValueError:frozen")
               ELSE UpdateFrame("hasattr", peer.field_name, peer.fact, "none")
    /\ UNCHANGED <<fact, factCall, ledger, call, ncalls, rules, calc, query>>

\* update_field(): if not hasattr(self, field_name): raise
UpdateTestHasattr ==
    /\ peer # NoCalc /\ peer.pc = "hasattr"
    /\ peer' = IF peer.field_name \notin (FactSlots \cup MetaFields \cup Properties)
               THEN UpdateFrame("done", peer.field_name, peer.fact,
                                "AttributeError:unknown_field")
               ELSE UpdateFrame("setattr", peer.field_name, peer.fact, "none")
    /\ UNCHANGED <<fact, factCall, ledger, call, ncalls, rules, calc, query>>

\* update_field(): setattr(self, field_name, fact)
UpdateSetattr ==
    /\ peer # NoCalc /\ peer.pc = "setattr"
    /\ ledger' = IF peer.field_name \in Properties THEN ledger
                 ELSE Some(SetAttr(ledger[1], peer.field_name, peer.fact))
    /\ peer' = UpdateFrame("done", peer.field_name, peer.fact,
                           IF peer.field_name \in Properties
                           THEN "AttributeError:no_setter" ELSE "none")
    /\ UNCHANGED <<fact, factCall, call, ncalls, rules, calc, query>>

\* FactLedger takes no lock: the statements of the two calls interleave freely
NextRace ==
    \/ \E facts \in RaceCreateInputs : Create(facts, "kim")
    \/ BeginFreeze
    \/ FreezeTestFrozen
    \/ FreezeTestRequired
    \/ FreezeValidate
    \/ FreezeSetFrozen
    \/ \E n \in RaceUpdateNames : \E f \in FactsFor(n) : BeginUpdate(n, f)
    \/ UpdateTestFrozen
    \/ UpdateTestHasattr
    \/ UpdateSetattr

SpecRace == Init /\ [][NextRace]_vars

\* freeze() has returned normally
FreezeReturned == query.op = "freeze" /\ query.pc = "done" /\ query.raised = "none"

\* Claim C28: with update_field and freeze() run by two producers on one ledger
\* and not serialized, in every interleaving the ledger freeze() has frozen
\* holds in each required slot a confirmed Fact that passes freeze's checks:
\* the racing update_field either took effect before the checks or was
\* rejected with the frozen error.
C28_RaceKeepsFrozenValid ==
    FreezeReturned =>
        /\ IsTrue(ledger[1].is_frozen)
        /\ FreezeConditions(ledger[1])


\* A step of a calculate() invocation: its entry, or any step taken while it
\* runs or after it ended
CalculateStep == calc' # calc \/ calc.pc # "idle"

\* Claim C29: calculate never modifies its inputs: from its entry until after
\* it returned or raised, every Fact slot, the version and is_frozen of the
\* ledger and every entry of the rule table keep their values.
C29_CalculateFrame ==
    [][CalculateStep => (ledger' = ledger /\ rules' = rules)]_vars

\* calculate() ran on a frozen ledger through its steps to its end
C29_Witness ==
    /\ Frozen
    /\ Terminated
    /\ Len(calc.traces) >= 3
    /\ rules \in RuleTables


\* The long-term deduction step of a non-exempt calculate() has run
DeductionComputed ==
    /\ Frozen
    /\ NonExempt
    /\ Len(calc.traces) >= 3
    /\ calc.traces[3].step_name = "calculate_long_term_deduction"

\* Claim C30: for every frozen ledger on the non-exempt path the
\* long_term_deduction of the calculation is never negative and never exceeds
\* max(transfer_income, 0), also when transfer_income is negative (a loss) and
\* the holding period is 3 years or more.
C30_DeductionBounded ==
    DeductionComputed =>
        /\ DecLe(Zero, calc.long_term_deduction)
        /\ DecLe(calc.long_term_deduction, ClampAtZero(calc.transfer_income))

=============================================================================
